---- MODULE Spec2Model ----
(***************************************************************************)
(* A model of streaming-objects: JsonPatch (lib/patch/json-patch.ts), the  *)
(* zod-validated wrapper around fast-json-patch's compare and applyPatch,  *)
(* and SyncState (lib/sync-state/sync-state.ts), the holder of one         *)
(* document that is mutated through mutateAndDiff and apply.               *)
(*                                                                         *)
(* Documents are JSON trees.  A JavaScript string that the code takes      *)
(* apart (an object key, a JSON pointer) is a sequence of one-character    *)
(* strings; a string that is only ever compared (a leaf value) is a TLA+   *)
(* string.  JavaScript objects live on a heap of cells, so that two names  *)
(* for one object (an alias) and two equal objects (a copy) differ.        *)
(***************************************************************************)
EXTENDS Integers, Sequences, FiniteSets, TLC

(***************************************************************************)
(* Bounds of the model.                                                    *)
(***************************************************************************)
\* longest array among the documents the callers build
MaxLen == 2
\* longest hand-written patch handed to apply
MaxPatchLen == 2
\* most elements of an array and operations of a hand-written patch that
\* JsonPatch.apply is given together
MaxInput == 4
\* most operation sequences in flight between producer and replica
MaxQueue == 2
MaxStateLen == 1

(***************************************************************************)
(* JSON values.  Every value is a record [t, v]: t the JavaScript type, v  *)
(* the payload (an Int, a string, a sequence of values for an array, a     *)
(* function from keys to values for an object).                            *)
(***************************************************************************)
Num(n) == [t |-> "num", v |-> n]
Str(s) == [t |-> "str", v |-> s]
Null == [t |-> "null", v |-> 0]
Undefined == [t |-> "undef", v |-> 0]
Arr(s) == [t |-> "arr", v |-> s]
Obj(f) == [t |-> "obj", v |-> f]

IsArr(x) == x.t = "arr"
IsObj(x) == x.t = "obj"
\* typeof x === "object" && x !== null
IsContainer(x) == x.t \in {"arr", "obj"}

(***************************************************************************)
(* Strings as character sequences.                                         *)
(***************************************************************************)
Digits == <<"0", "1", "2", "3", "4", "5", "6", "7", "8", "9">>
IsDigit(c) == \E i \in 1..10 : Digits[i] = c
DigitVal(c) == (CHOOSE i \in 1..10 : Digits[i] = c) - 1

\* fast-json-patch helpers.isInteger: every character is a decimal digit
\* (the empty string passes)
isInteger(str) == \A i \in 1..Len(str) : IsDigit(str[i])

\* ~~key on a string of digits
RECURSIVE ToInt(_)
ToInt(str) ==
  IF str = <<>> THEN 0
  ELSE 10 * ToInt(SubSeq(str, 1, Len(str) - 1)) + DigitVal(str[Len(str)])

\* String(i) for an array index
RECURSIVE IntToStr(_)
IntToStr(n) ==
  IF n < 10 THEN <<Digits[n + 1]>>
  ELSE IntToStr(n \div 10) \o <<Digits[(n % 10) + 1]>>

Contains(str, c) == \E i \in 1..Len(str) : str[i] = c

\* String.prototype.replace(/ab/g, to): every occurrence of the two
\* characters a b, scanning left to right
RECURSIVE ReplaceAll2(_, _, _, _)
ReplaceAll2(str, a, b, to) ==
  IF Len(str) < 2 THEN str
  ELSE IF str[1] = a /\ str[2] = b
       THEN to \o ReplaceAll2(SubSeq(str, 3, Len(str)), a, b, to)
       ELSE <<str[1]>> \o ReplaceAll2(SubSeq(str, 2, Len(str)), a, b, to)

\* String.prototype.replace(/a/g, to)
RECURSIVE ReplaceAll1(_, _, _)
ReplaceAll1(str, a, to) ==
  IF str = <<>> THEN <<>>
  ELSE (IF str[1] = a THEN to ELSE <<str[1]>>)
       \o ReplaceAll1(SubSeq(str, 2, Len(str)), a, to)

\* fast-json-patch helpers.escapePathComponent
escapePathComponent(key) ==
  IF ~Contains(key, "/") /\ ~Contains(key, "~") THEN key
  ELSE ReplaceAll1(ReplaceAll1(key, "~", <<"~", "0">>), "/", <<"~", "1">>)

\* the two replacements in the other order
unescapePathComponent_TildeFirst(key) ==
  ReplaceAll2(ReplaceAll2(key, "~", "0", <<"~">>), "~", "1", <<"/">>)

\* fast-json-patch helpers.unescapePathComponent
unescapePathComponent(key) ==
  ReplaceAll2(ReplaceAll2(key, "~", "1", <<"/">>), "~", "0", <<"~">>)

\* String.prototype.split("/")
RECURSIVE Split(_)
Split(str) ==
  IF ~Contains(str, "/") THEN <<str>>
  ELSE LET i == CHOOSE j \in 1..Len(str) :
                  str[j] = "/" /\ \A k \in 1..(j - 1) : str[k] # "/"
       IN <<SubSeq(str, 1, i - 1)>> \o Split(SubSeq(str, i + 1, Len(str)))

\* Array.prototype.join("/")
RECURSIVE Join(_)
Join(parts) ==
  IF parts = <<>> THEN <<>>
  ELSE IF Len(parts) = 1 THEN parts[1]
  ELSE parts[1] \o <<"/">> \o Join(SubSeq(parts, 2, Len(parts)))

(***************************************************************************)
(* The keys the documents of the model use, in the order JavaScript        *)
(* iterates them (Object.keys: insertion order; the documents of the      *)
(* model insert their keys in this order).                                 *)
(***************************************************************************)
K_count == <<"c", "o", "u", "n", "t">>
K_name == <<"n", "a", "m", "e">>
K_age == <<"a", "g", "e">>
K_x == <<"x">>
K_foo == <<"f", "o", "o">>
K_proto == <<"_", "_", "p", "r", "o", "t", "o", "_", "_">>
\* keys that hold the characters a path escapes
K_slash == <<"/">>
K_tilde1 == <<"~", "1">>
K_abc == <<"a", "/", "b", "~", "c">>
KeyOrder ==
  <<K_count, K_name, K_age, K_x, K_foo, K_slash, K_tilde1, K_abc>>

\* Object.keys / fast-json-patch helpers._objectKeys
ObjectKeys(x) ==
  IF IsArr(x) THEN [i \in 1..Len(x.v) |-> IntToStr(i - 1)]
  ELSE IF IsObj(x) THEN SelectSeq(KeyOrder, LAMBDA k : k \in DOMAIN x.v)
  ELSE <<>>

\* an array index as JavaScript writes it: digits, no leading zero
IsCanonicalIndex(key) ==
  key # <<>> /\ isInteger(key) /\ (Len(key) > 1 => key[1] # "0")

\* Object.prototype.hasOwnProperty
HasOwn(x, key) ==
  IF IsArr(x) THEN IsCanonicalIndex(key) /\ ToInt(key) < Len(x.v)
  ELSE IF IsObj(x) THEN key \in DOMAIN x.v
  ELSE FALSE

\* x[key] for a string key
Prop(x, key) ==
  IF HasOwn(x, key)
  THEN (IF IsArr(x) THEN x.v[ToInt(key) + 1] ELSE x.v[key])
  ELSE Undefined

\* arr[i] for a number i
At(x, i) == IF IsArr(x) /\ i < Len(x.v) THEN x.v[i + 1] ELSE Undefined

\* obj[key] = value on an object
SetMember(x, key, value) ==
  Obj([k \in (DOMAIN x.v) \cup {key} |-> IF k = key THEN value ELSE x.v[k]])

\* delete obj[key]
DeleteMember(x, key) == Obj([k \in (DOMAIN x.v) \ {key} |-> x.v[k]])

\* arr.splice(i, 0, value): an index past the end inserts at the end
\* (the faulty variant writes over the element at i)
Splice0_Overwrite(x, i, value) ==
  LET n == Len(x.v)
      at == IF i > n THEN n ELSE i
  IN Arr(SubSeq(x.v, 1, at) \o <<value>> \o SubSeq(x.v, at + 2, n))

Splice0(x, i, value) ==
  LET n == Len(x.v)
      at == IF i > n THEN n ELSE i
  IN Arr(SubSeq(x.v, 1, at) \o <<value>> \o SubSeq(x.v, at + 1, n))

\* arr.splice(i, 1)
Splice1(x, i) ==
  LET n == Len(x.v)
  IN IF i >= n THEN x ELSE Arr(SubSeq(x.v, 1, i) \o SubSeq(x.v, i + 2, n))

\* arr[i] = value for i < length
SetAt(x, i, value) == Arr([x.v EXCEPT ![i + 1] = value])

(***************************************************************************)
(* The schema capability: zod's parse.  A schema is data; Parse returns    *)
(* [ok, v]: whether the value satisfies the schema and, if so, zod's       *)
(* output (a z.object in its default "strip" mode drops unknown keys).     *)
(***************************************************************************)
ZNumber == [s |-> "number"]
ZString == [s |-> "string"]
ZArray(of) == [s |-> "array", of |-> of]
ZObject(shape, optional, unknownKeys) ==
  [s |-> "object", shape |-> shape, optional |-> optional,
   unknownKeys |-> unknownKeys]

RECURSIVE Parse(_, _)
Parse(schema, x) ==
  CASE schema.s = "number" -> [ok |-> x.t = "num", v |-> x]
    [] schema.s = "string" -> [ok |-> x.t = "str", v |-> x]
    [] schema.s = "unknown" -> [ok |-> TRUE, v |-> x]
    [] schema.s = "literal" -> [ok |-> x = schema.value, v |-> x]
    [] schema.s = "discriminatedUnion" ->
         IF IsObj(x) /\ schema.discriminator \in DOMAIN x.v
              /\ \E o \in schema.options :
                   o.shape[schema.discriminator].value
                     = x.v[schema.discriminator]
         THEN Parse(CHOOSE o \in schema.options :
                      o.shape[schema.discriminator].value
                        = x.v[schema.discriminator], x)
         ELSE [ok |-> FALSE, v |-> x]
    [] schema.s = "array" ->
         IF ~IsArr(x) THEN [ok |-> FALSE, v |-> x]
         ELSE LET rs == [i \in 1..Len(x.v) |-> Parse(schema.of, x.v[i])]
              IN [ok |-> \A i \in 1..Len(x.v) : rs[i].ok,
                  v |-> Arr([i \in 1..Len(x.v) |-> rs[i].v])]
    [] schema.s = "object" ->
         IF ~IsObj(x) THEN [ok |-> FALSE, v |-> x]
         ELSE LET known == (DOMAIN schema.shape) \cap (DOMAIN x.v)
                  kept == IF schema.unknownKeys = "passthrough"
                          THEN DOMAIN x.v ELSE known
                  rs == [k \in known |-> Parse(schema.shape[k], x.v[k])]
              IN [ok |-> /\ \A k \in known : rs[k].ok
                         /\ \A k \in (DOMAIN schema.shape) \ (DOMAIN x.v) :
                              \/ k \in schema.optional
                              \/ Parse(schema.shape[k], Undefined).ok,
                  v |-> Obj([k \in kept |->
                              IF k \in known THEN rs[k].v ELSE x.v[k]])]

\* schema.parse does not throw
Valid(schema, x) == Parse(schema, x).ok

(***************************************************************************)
(* JSON Patch operations (fast-json-patch's Operation).  A field an        *)
(* operation does not carry is Absent (from) or Undefined (value).         *)
(***************************************************************************)
Absent == <<"absent">>
OpAdd(path, value) ==
  [op |-> "add", path |-> path, from |-> Absent, value |-> value]
OpRemove(path) ==
  [op |-> "remove", path |-> path, from |-> Absent, value |-> Undefined]
OpReplace(path, value) ==
  [op |-> "replace", path |-> path, from |-> Absent, value |-> value]
OpTest(path, value) ==
  [op |-> "test", path |-> path, from |-> Absent, value |-> value]
OpMove(from, path) ==
  [op |-> "move", path |-> path, from |-> from, value |-> Undefined]
OpCopy(from, path) ==
  [op |-> "copy", path |-> path, from |-> from, value |-> Undefined]
\* the internal operation of getValueByPointer
OpGet(path) ==
  [op |-> "_get", path |-> path, from |-> Absent, value |-> Undefined]

RECURSIVE Flatten(_)
Flatten(ss) ==
  IF ss = <<>> THEN <<>> ELSE ss[1] \o Flatten(SubSeq(ss, 2, Len(ss)))

(***************************************************************************)
(* fast-json-patch duplex._generate, the body of compare(tree1, tree2):    *)
(* the old keys from the last to the first (a replace, a recursion or a    *)
(* remove each), then an add for every new key when a key was deleted or   *)
(* the key counts differ.                                                  *)
(***************************************************************************)
\* oldVal !== newVal, on two values that are not both containers of one
\* kind; the faulty variant has the comparison inverted
GenerateDiffers_Inverted(oldVal, newVal) == oldVal = newVal

GenerateDiffers(oldVal, newVal) == oldVal # newVal

\* the recursion of _generate is entered for two containers of one kind
GenerateRecurses(oldVal, newVal) ==
  IsContainer(oldVal) /\ IsContainer(newVal) /\ IsArr(oldVal) = IsArr(newVal)

\* for (var t = oldKeys.length - 1; t >= 0; t--): the key of the i-th turn
\* of the loop over the old keys; the faulty variant starts at the first
OldKeyAt_Ascending(oldKeys, i) == oldKeys[i]

OldKeyAt(oldKeys, i) == oldKeys[Len(oldKeys) + 1 - i]

RECURSIVE Generate(_, _, _)
Generate(mirror, obj, path) ==
  LET newKeys == ObjectKeys(obj)
      oldKeys == ObjectKeys(mirror)
      At_(key) == path \o <<"/">> \o escapePathComponent(key)
      OldOps(key) ==
        LET oldVal == Prop(mirror, key)
            newVal == Prop(obj, key)
        IN IF HasOwn(obj, key)
           THEN IF GenerateRecurses(oldVal, newVal)
                THEN Generate(oldVal, newVal, At_(key))
                ELSE IF GenerateDiffers(oldVal, newVal)
                     THEN <<OpReplace(At_(key), newVal)>>
                     ELSE <<>>
           ELSE IF IsArr(mirror) = IsArr(obj)
                THEN <<OpRemove(At_(key))>>
                ELSE <<OpReplace(path, obj)>>
      deleted == /\ IsArr(mirror) = IsArr(obj)
                 /\ \E i \in 1..Len(oldKeys) : ~HasOwn(obj, oldKeys[i])
      olds == Flatten([i \in 1..Len(oldKeys) |->
                         OldOps(OldKeyAt(oldKeys, i))])
      adds == Flatten([i \in 1..Len(newKeys) |->
                         IF HasOwn(mirror, newKeys[i]) THEN <<>>
                         ELSE <<OpAdd(At_(newKeys[i]),
                                      Prop(obj, newKeys[i]))>>])
  IN IF ~deleted /\ Len(newKeys) = Len(oldKeys) THEN olds ELSE olds \o adds

\* fast-json-patch duplex.compare
compare(tree1, tree2) == Generate(tree1, tree2, <<>>)

(***************************************************************************)
(* fast-json-patch core.applyOperation, called by applyPatch with           *)
(* validateOperation = true: the walk down the path, the validator, and    *)
(* the operations on the object or array the path ends in.  An error is    *)
(* the name of the JsonPatchError thrown ("TypeError" for a JavaScript     *)
(* TypeError), "" for none.                                                *)
(***************************************************************************)
K_prototype == <<"p", "r", "o", "t", "o", "t", "y", "p", "e">>
K_constructor == <<"c", "o", "n", "s", "t", "r", "u", "c", "t", "o", "r">>
\* existingPathFragment === undefined
NoFragment == <<"undefined">>
\* a member that refers back to the document it is in (move from the root)
Cycle == [t |-> "cycle", v |-> 0]

\* the value the loose comparison (==) converts a numeric string to
NumberOf(x) ==
  IF x.t = "str" /\ x.v \in {"1", "2"}
  THEN Num(IF x.v = "1" THEN 1 ELSE 2) ELSE x

\* _areEquals(a, b), the deep and strict equality of the test operation;
\* the faulty variant compares loosely
areEquals_Loose(a, b) == NumberOf(a) = NumberOf(b)

areEquals(a, b) == a = b

\* the validator's checks that need no document
ValidatorBasic(operation) ==
  IF operation.path # <<>> /\ operation.path[1] # "/"
  THEN "OPERATION_PATH_INVALID"
  ELSE IF operation.op \in {"move", "copy"} /\ operation.from = Absent
  THEN "OPERATION_FROM_REQUIRED"
  ELSE IF operation.op \in {"add", "replace", "test"}
          /\ operation.value = Undefined
  THEN "OPERATION_VALUE_REQUIRED"
  ELSE ""

\* what one walk returns: the error, the container after the operation,
\* the value removed or read, whether the operation is move or copy (which
\* act on the whole document)
WalkResult(err, val, removed, composite) ==
  [err |-> err, val |-> val, removed |-> removed, composite |-> composite]

\* objOps / arrOps for add, remove, replace, test and _get, at the member
\* key (an object) or the index idx (an array); isIndex: the key was an
\* integer or "-"
FinalOp(operation, obj, key, idx, isIndex) ==
  LET old == IF IsArr(obj) /\ isIndex THEN At(obj, idx) ELSE Prop(obj, key)
  IN
  IF operation.op \in {"move", "copy"}
  THEN WalkResult("", obj, Undefined, TRUE)
  ELSE IF obj.t \in {"null", "undef"}
  THEN WalkResult("TypeError", obj, Undefined, FALSE)
  ELSE IF operation.op = "_get"
  THEN WalkResult("", obj, old, FALSE)
  ELSE IF operation.op = "test"
  THEN WalkResult(IF areEquals(old, operation.value) THEN ""
                  ELSE "TEST_OPERATION_FAILED", obj, Undefined, FALSE)
  ELSE IF IsArr(obj)
  THEN CASE operation.op = "add" ->
              WalkResult("", IF isIndex THEN Splice0(obj, idx, operation.value)
                             ELSE obj, Undefined, FALSE)
         [] operation.op = "remove" ->
              WalkResult("", Splice1(obj, IF isIndex THEN idx ELSE 0),
                         At(obj, IF isIndex THEN idx ELSE 0), FALSE)
         [] operation.op = "replace" ->
              WalkResult("", IF isIndex /\ idx < Len(obj.v)
                             THEN SetAt(obj, idx, operation.value)
                             ELSE obj, old, FALSE)
  ELSE IF IsObj(obj)
  THEN CASE operation.op = "add" ->
              WalkResult("", SetMember(obj, key, operation.value),
                         Undefined, FALSE)
         [] operation.op = "remove" ->
              WalkResult("", DeleteMember(obj, key), old, FALSE)
         [] operation.op = "replace" ->
              WalkResult("", SetMember(obj, key, operation.value), old, FALSE)
  \* a primitive: a property cannot be set on it (strict mode)
  ELSE IF operation.op = "remove" THEN WalkResult("", obj, Undefined, FALSE)
  ELSE WalkResult("TypeError", obj, Undefined, FALSE)

\* the validator's checks against the document, made once, when the walk
\* first meets a missing member or reaches the last key.  fromError is the
\* error of validate([{op: "_get", path: operation.from}], document), which
\* the validator runs for a move or a copy
\* (the faulty variant checks nothing)
ValidatorAt_Lenient(operation, existingPathFragment, fromError) == ""

ValidatorAt(operation, existingPathFragment, fromError) ==
  IF operation.op = "add"
  THEN LET pathLen == Len(Split(operation.path))
           existingPathLen == Len(Split(existingPathFragment))
       IN IF pathLen # existingPathLen + 1 /\ pathLen # existingPathLen
          THEN "OPERATION_PATH_CANNOT_ADD" ELSE ""
  ELSE IF operation.op \in {"replace", "remove", "_get"}
  THEN IF operation.path # existingPathFragment
       THEN "OPERATION_PATH_UNRESOLVABLE" ELSE ""
  ELSE IF operation.op \in {"move", "copy"}
  THEN IF fromError = "OPERATION_PATH_UNRESOLVABLE"
       THEN "OPERATION_FROM_UNRESOLVABLE"
       ELSE IF fromError = "TypeError" THEN "TypeError" ELSE ""
  ELSE ""

\* what the walk carries from one turn of the loop to the next:
\* existingPathFragment, validateOperation, and the error of the
\* validator's look at from
WalkState(fragment, validate, fromError) ==
  [fragment |-> fragment, validate |-> validate, fromError |-> fromError]

\* key = unescapePathComponent(key) when the key holds a "~"
KeyOf(rawKey) ==
  IF rawKey # <<>> /\ Contains(rawKey, "~")
  THEN unescapePathComponent(rawKey) ELSE rawKey

\* the key names an element of the array obj: "-" or an integer
IsIndex(obj, key) == IsArr(obj) /\ (key = <<"-">> \/ isInteger(key))
\* key = obj.length for "-", ~~key for an integer
IndexOf(obj, key) ==
  IF ~IsIndex(obj, key) THEN 0
  ELSE IF key = <<"-">> THEN Len(obj.v) ELSE ToInt(key)
\* obj[key] after the conversion of the key
Child(obj, key) ==
  IF IsIndex(obj, key) THEN At(obj, IndexOf(obj, key)) ELSE Prop(obj, key)

\* existingPathFragment after this turn: set once, at the first key that
\* is missing or at the last key
FragmentAt(operation, obj, keys, t, st, key) ==
  IF ~st.validate \/ st.fragment # NoFragment THEN st.fragment
  ELSE IF Prop(obj, key) = Undefined THEN Join(SubSeq(keys, 1, t))
  ELSE IF t = Len(keys) - 1 THEN operation.path
  ELSE NoFragment

\* obj with the child the walk went into replaced by what the walk left
Rebuilt(obj, key, r) ==
  IF r.err # "" \/ r.composite \/ ~IsContainer(Child(obj, key))
  THEN WalkResult(r.err, obj, r.removed, r.composite)
  ELSE WalkResult("", IF IsIndex(obj, key)
                      THEN SetAt(obj, IndexOf(obj, key), r.val)
                      ELSE SetMember(obj, key, r.val),
                  r.removed, FALSE)

\* one turn of applyOperation's while (true) loop: obj is the container
\* reached, t the JavaScript index of the key (keys[t] is keys[t + 1] here)
RECURSIVE Walk(_, _, _, _, _)
WalkTurn(operation, obj, keys, t, st, key, fragment) ==
  IF \/ key = K_proto
     \/ key = K_prototype /\ t > 0 /\ keys[t] = K_constructor
     \/ obj.t \in {"null", "undef"}
  THEN WalkResult("TypeError", obj, Undefined, FALSE)
  ELSE IF /\ st.validate /\ st.fragment = NoFragment /\ fragment # NoFragment
          /\ ValidatorAt(operation, fragment, st.fromError) # ""
  THEN WalkResult(ValidatorAt(operation, fragment, st.fromError), obj,
                  Undefined, FALSE)
  ELSE IF IsArr(obj) /\ st.validate /\ ~IsIndex(obj, key)
  THEN WalkResult("OPERATION_PATH_ILLEGAL_ARRAY_INDEX", obj, Undefined, FALSE)
  ELSE IF t + 1 >= Len(keys)
  THEN IF IsArr(obj) /\ st.validate /\ operation.op = "add"
          /\ IndexOf(obj, key) > Len(obj.v)
       THEN WalkResult("OPERATION_VALUE_OUT_OF_BOUNDS", obj, Undefined, FALSE)
       ELSE FinalOp(operation, obj, key, IndexOf(obj, key), IsIndex(obj, key))
  ELSE IF st.validate /\ ~IsContainer(Child(obj, key))
  THEN WalkResult("OPERATION_PATH_UNRESOLVABLE", obj, Undefined, FALSE)
  ELSE Rebuilt(obj, key,
               Walk(operation, Child(obj, key), keys, t + 1,
                    WalkState(fragment, st.validate, st.fromError)))

WalkKey(operation, obj, keys, t, st, key) ==
  WalkTurn(operation, obj, keys, t, st, key,
           FragmentAt(operation, obj, keys, t, st, key))

Walk(operation, obj, keys, t, st) ==
  WalkKey(operation, obj, keys, t, st, KeyOf(keys[t + 1]))

\* what applyOperation returns: the error, newDocument, the document object
\* as the operation left it (mutated in place; an operation on the root
\* returns another object and leaves it alone), whether newDocument is
\* another object, the value removed or read
OpResult(err, doc, mut, rebound, removed) ==
  [err |-> err, doc |-> doc, mut |-> mut, rebound |-> rebound,
   removed |-> removed]

\* the result of a walk from the root as applyOperation's result
Walked(w) == OpResult(w.err, w.val, w.val, FALSE, w.removed)

\* applyOperation(document, operation) without validation, as move, copy
\* and getValueByPointer call it, for _get, remove and add
applyPlain(document, operation) ==
  IF operation.path = <<>>
  THEN CASE operation.op = "add" ->
              OpResult("", operation.value, document, TRUE, Undefined)
         [] operation.op = "remove" ->
              OpResult("", Null, document, TRUE, document)
         [] operation.op = "_get" ->
              OpResult("", document, document, FALSE, document)
  ELSE Walked(Walk(operation, document, Split(operation.path), 1,
                   WalkState(NoFragment, FALSE, "")))

\* validate([{op: "_get", path: from}], document): the error's name
FromError(document, from) ==
  IF ValidatorBasic(OpGet(from)) # "" THEN ValidatorBasic(OpGet(from))
  ELSE IF from = <<>> THEN ""
  ELSE Walk(OpGet(from), document, Split(from), 1,
            WalkState(NoFragment, TRUE, "")).err

\* the document a move or copy leaves, from the result r of its last step
Composite(r) == OpResult(r.err, r.mut, r.mut, FALSE, Undefined)

\* objOps.move after the remove at from (its result r1): add at path the
\* value removed; the value moved from the root is the document itself
MoveAdd(operation, r1) ==
  IF r1.err # "" THEN Composite(r1)
  ELSE Composite(applyPlain(r1.mut,
         OpAdd(operation.path,
               IF operation.from = <<>> THEN Cycle ELSE r1.removed)))

\* objOps.move: remove at from, then add at path
MoveOp(document, operation) ==
  MoveAdd(operation, applyPlain(document, OpRemove(operation.from)))

\* objOps.copy after getValueByPointer(document, from) (its result got):
\* add at path a deep copy of the value
CopyAdd(document, operation, got) ==
  IF got.err # "" THEN OpResult(got.err, document, document, FALSE, Undefined)
  ELSE Composite(applyPlain(document, OpAdd(operation.path, got.removed)))

CopyOp(document, operation) ==
  CopyAdd(document, operation, applyPlain(document, OpGet(operation.from)))

\* a move or copy to the root: newDocument is the value at from
RootFrom(document, got) ==
  IF got.err # "" THEN OpResult(got.err, document, document, FALSE, Undefined)
  ELSE OpResult("", got.removed, document, TRUE, document)

\* applyOperation after the walk down operation.path (its result w)
AfterWalk(document, operation, w) ==
  IF w.err # "" THEN OpResult(w.err, document, document, FALSE, Undefined)
  ELSE IF ~w.composite THEN Walked(w)
  ELSE IF operation.op = "move" THEN MoveOp(document, operation)
  ELSE CopyOp(document, operation)

\* applyOperation(document, operation, true, true, true, index)
applyOperation(document, operation) ==
  IF ValidatorBasic(operation) # ""
  THEN OpResult(ValidatorBasic(operation), document, document, FALSE,
                Undefined)
  ELSE IF operation.path = <<>>
  THEN CASE operation.op \in {"add", "replace"} ->
              OpResult("", operation.value, document, TRUE, document)
         [] operation.op \in {"move", "copy"} ->
              RootFrom(document, applyPlain(document, OpGet(operation.from)))
         [] operation.op = "test" ->
              OpResult(IF areEquals(document, operation.value) THEN ""
                       ELSE "TEST_OPERATION_FAILED", document, document,
                       FALSE, Undefined)
         [] operation.op = "remove" ->
              OpResult("", Null, document, TRUE, document)
         [] operation.op = "_get" ->
              OpResult("", document, document, FALSE, document)
  ELSE AfterWalk(document, operation,
         Walk(operation, document, Split(operation.path), 1,
              WalkState(NoFragment, TRUE,
                        IF operation.op \in {"move", "copy"}
                        THEN FromError(document, operation.from) ELSE "")))

(***************************************************************************)
(* fast-json-patch core.applyPatch(document, patch, true, true, true):     *)
(* the operations in order, each on the document the one before returned.  *)
(* cell is the object passed in, as the operations leave it; doc is        *)
(* newDocument, another object once an operation on the root was applied.  *)
(***************************************************************************)
PatchState(err, doc, cell, rooted) ==
  [err |-> err, doc |-> doc, cell |-> cell, rooted |-> rooted]

\* results[i] = applyOperation(...); document = results[i].newDocument
Applied(st, r) ==
  PatchState(r.err, r.doc,
             IF st.rooted THEN r.mut ELSE st.cell,
             st.rooted /\ ~(r.err = "" /\ r.rebound))

RECURSIVE ApplyPatchFrom(_, _, _)
ApplyPatchFrom(st, patch, i) ==
  IF i > Len(patch) \/ st.err # "" THEN st
  ELSE ApplyPatchFrom(Applied(st, applyOperation(st.doc, patch[i])),
                      patch, i + 1)

applyPatch(document, patch) ==
  ApplyPatchFrom(PatchState("", document, document, TRUE), patch, 1)

(***************************************************************************)
(* The heap.  A cell holds one document (a top-level JavaScript object);   *)
(* a reference is the cell's number.  A new object takes the first free    *)
(* cell, and a cell nothing refers to any more is freed.                   *)
(***************************************************************************)
\* cells of the heap
NRefs == 6
Refs == 1..NRefs
Free == [t |-> "free", v |-> 0]
NoRef == 0
EmptyHeap == [r \in Refs |-> Free]
Alloc(h) == CHOOSE r \in Refs : h[r] = Free /\ \A q \in 1..(r - 1) : h[q] # Free
Store(h, r, x) == [h EXCEPT ![r] = x]
\* keep the cells in live, free the others
Collect(h, live) == [r \in Refs |-> IF r \in live THEN h[r] ELSE Free]

(***************************************************************************)
(* JsonPatch (lib/patch/json-patch.ts).                                    *)
(***************************************************************************)
\* what a call returns to its caller: threw and the error's name, or the
\* operations (diff) or the document (apply; Undefined when it threw)
Returned(threw, error, ops, value) ==
  [threw |-> threw, error |-> error, ops |-> ops, value |-> value]

\* diff validates updated (line 99); the faulty variant skips the validation
DiffAcceptsUpdated_Unchecked(schema_, updated) == TRUE

DiffAcceptsUpdated(schema_, updated) == Valid(schema_, updated)

\* JsonPatch.diff({original, updated})
JsonPatch_diff(schema_, original, updated) ==
  IF ~Valid(schema_, original) \/ ~DiffAcceptsUpdated(schema_, updated)
  THEN Returned(TRUE, "ZodError", <<>>, Undefined)
  ELSE Returned(FALSE, "", compare(original, updated), Undefined)

\* apply validates original first (line 117); the faulty variant skips it
ApplyAcceptsOriginal_Unchecked(schema_, original) == TRUE

ApplyAcceptsOriginal(schema_, original) == Valid(schema_, original)

\* const copy = structuredClone(original) (line 120): a new object; the
\* faulty variant patches the original itself
ApplyCopy_Alias(h, original) == original

ApplyCopy(h, original) == Alloc(h)

\* result.some((r) => r !== null && typeof r === "object" && "name" in r)
\* (lines 128-130): the results applyPatch returns are {newDocument,
\* removed?, test?, index?} objects, none with a member "name"
ResultsHaveName(results) == FALSE

\* what JsonPatch.apply leaves: [ret: what the call returns, heap]
ApplyOutcome(ret_, h) == [ret |-> ret_, heap |-> h]

\* lines 127-140, after applyPatch returned result: the check of the
\* results, the validation of newDocument, the return
ApplyValidated(h, schema_, result) ==
  IF ResultsHaveName(result)
  THEN ApplyOutcome(Returned(TRUE, "Error", <<>>, Undefined), h)
  ELSE IF ~Valid(schema_, result.doc)
  THEN ApplyOutcome(Returned(TRUE, "ZodError", <<>>, Undefined), h)
  ELSE ApplyOutcome(Returned(FALSE, "", <<>>, Parse(schema_, result.doc).v), h)

\* line 125: applyPatch threw (result.err), or returned; the faulty variant
\* rethrows every error of applyPatch as one generic Error
ApplyPatched_Generic(h, schema_, copy, result) ==
  IF result.err # ""
  THEN ApplyOutcome(Returned(TRUE, "Error", <<>>, Undefined),
                    Store(h, copy, result.cell))
  ELSE ApplyValidated(Store(h, copy, result.cell), schema_, result)

ApplyPatched(h, schema_, copy, result) ==
  IF result.err # ""
  THEN ApplyOutcome(Returned(TRUE, result.err, <<>>, Undefined),
                    Store(h, copy, result.cell))
  ELSE ApplyValidated(Store(h, copy, result.cell), schema_, result)

\* the faulty variant validates the working copy after every operation
JsonPatch_apply_EveryStep(h, schema_, original, patch) ==
  IF \/ ~ApplyAcceptsOriginal(schema_, h[original])
     \/ \E i \in 1..Len(patch) :
          LET r == applyPatch(h[original], SubSeq(patch, 1, i))
          IN r.err = "" /\ ~Valid(schema_, r.doc)
  THEN ApplyOutcome(Returned(TRUE, "ZodError", <<>>, Undefined), h)
  ELSE ApplyPatched(h, schema_, ApplyCopy(h, original),
                    applyPatch(h[original], patch))

\* JsonPatch.apply({original, patch}) on the heap h, original a reference
JsonPatch_apply(h, schema_, original, patch) ==
  IF ~ApplyAcceptsOriginal(schema_, h[original])
  THEN ApplyOutcome(Returned(TRUE, "ZodError", <<>>, Undefined), h)
  ELSE ApplyPatched(h, schema_, ApplyCopy(h, original),
                    applyPatch(h[original], patch))

\* the member names of an operation, and xyz, a name no operation has
OperationKey ==
  [op |-> <<"o", "p">>, path |-> <<"p", "a", "t", "h">>,
   from |-> <<"f", "r", "o", "m">>, value |-> <<"v", "a", "l", "u", "e">>,
   xyz |-> <<"x", "y", "z">>]

\* z.discriminatedUnion("op", [z.object({op: z.literal("add"), path:
\* z.string(), value: z.unknown()}), ...])
OperationSchema ==
  LET Variant(tag, members) ==
        ZObject(OperationKey.op :> [s |-> "literal", value |-> Str(tag)]
                  @@ OperationKey.path :> ZString @@ members, {}, "strip")
      Value == OperationKey.value :> [s |-> "unknown"]
      From == OperationKey.from :> ZString
  IN [s |-> "discriminatedUnion", discriminator |-> OperationKey.op,
      options |-> {Variant("add", Value), Variant("remove", <<>>),
                   Variant("replace", Value), Variant("move", From),
                   Variant("copy", From), Variant("test", Value)}]

\* JsonPatch.validatePatch(patch): ZOperation.parse(patch), ZOperation the
\* array of OperationSchema
validatePatch(patch) ==
  IF Parse(ZArray(OperationSchema), patch).ok
  THEN Returned(FALSE, "", <<>>, Parse(ZArray(OperationSchema), patch).v)
  ELSE Returned(TRUE, "ZodError", <<>>, Undefined)

\* JsonPatch.apply({original, patch}) with a patch that is an object and no
\* array: applyPatch, called with validateOperation = true, throws
\* SEQUENCE_NOT_AN_ARRAY before it looks at the copy
JsonPatch_applyObject(h, schema_, original) ==
  IF ~ApplyAcceptsOriginal(schema_, h[original])
  THEN ApplyOutcome(Returned(TRUE, "ZodError", <<>>, Undefined), h)
  ELSE ApplyOutcome(Returned(TRUE, "SEQUENCE_NOT_AN_ARRAY", <<>>, Undefined),
                    Store(h, ApplyCopy(h, original), h[original]))

(***************************************************************************)
(* The schemas and documents of the model.                                 *)
(***************************************************************************)
\* z.array(z.object({ count: z.number() }))
StateSchema == ZArray(ZObject(K_count :> ZNumber, {}, "strip"))
\* z.object({ name: z.string(), age: z.number().optional() })
PersonSchema ==
  ZObject(K_name :> ZString @@ K_age :> ZNumber, {K_age}, "strip")
Schemas == {StateSchema, PersonSchema}
\* z.object({ foo: z.array(z.string()) })
FooSchema == ZObject(K_foo :> ZArray(ZString), {}, "strip")

Count(n) == Obj(K_count :> Num(n))
\* with a member the schema does not know: valid, and stripped by parse
CountExtra == Obj(K_count :> Num(1) @@ K_x :> Num(1))
\* count is a string: invalid
CountBad == Obj(K_count :> Str("1"))
Elems == {Count(1), Count(2), CountExtra, CountBad}
ArrDocs == {Arr(s) : s \in UNION {[1..n -> Elems] : n \in 0..MaxLen}}
ObjDocs ==
  {Obj(K_name :> Str("a")), Obj(K_name :> Str("1")),
   Obj(K_name :> Str("a") @@ K_age :> Num(1)),
   Obj(K_name :> Str("a") @@ K_age :> Num(2)),
   Obj(K_name :> Str("a") @@ K_x :> Num(1)),
   Obj(K_age :> Num(1)),
   Obj(K_name :> Num(1))}
\* { foo: ["bar", "baz"] } and { foo: ["bar", "qux", "baz"] }
FooDocs ==
  {Obj(K_foo :> Arr(<<Str("bar"), Str("baz")>>)),
   Obj(K_foo :> Arr(<<Str("bar"), Str("qux"), Str("baz")>>))}
Docs == ArrDocs \cup ObjDocs \cup FooDocs

\* a JSON pointer from its reference tokens
RECURSIVE Pointer(_)
Pointer(tokens) ==
  IF tokens = <<>> THEN <<>>
  ELSE <<"/">> \o tokens[1] \o Pointer(SubSeq(tokens, 2, Len(tokens)))

OpsPool ==
  {OpAdd(Pointer(<<<<"-">>>>), Count(2)),
   OpAdd(Pointer(<<<<"0">>>>), Count(1)),
   OpAdd(Pointer(<<<<"1">>>>), Count(2)),
   OpAdd(Pointer(<<<<"0">>, K_x>>), Num(1)),
   OpRemove(Pointer(<<<<"0">>>>)),
   OpReplace(Pointer(<<<<"0">>, K_count>>), Num(2)),
   OpReplace(Pointer(<<<<"0">>, K_count>>), Str("1")),
   OpTest(Pointer(<<<<"0">>, K_count>>), Num(1)),
   OpTest(Pointer(<<K_name>>), Num(1)),
   OpReplace(<<>>, Arr(<<Count(1)>>)),
   OpMove(Pointer(<<<<"0">>>>), Pointer(<<<<"1">>>>)),
   OpMove(Pointer(<<<<"0">>>>), Pointer(<<<<"0">>, K_x>>)),
   OpCopy(Pointer(<<<<"0">>>>), Pointer(<<<<"-">>>>)),
   OpAdd(Pointer(<<K_age>>), Num(1)),
   OpRemove(Pointer(<<K_age>>)),
   OpReplace(Pointer(<<<<"1">>>>), Count(2)),
   OpAdd(K_age, Num(1)),
   OpGet(Pointer(<<<<"0">>>>))}
Patches == UNION {[1..n -> OpsPool] : n \in 0..MaxPatchLen}

\* decoded values handed to validatePatch: arrays of operations, well formed
\* or not, and values that are no arrays
RawPatches ==
  LET K == OperationKey
      Op(tag) == K.op :> Str(tag)
      Path == K.path :> Str("/a")
      elems ==
        {Obj(Op("add") @@ Path @@ K.value :> Num(1)),
         Obj(Op("add") @@ Path),
         Obj(Op("add") @@ Path @@ K.value :> Str("qux") @@ K.xyz :> Num(123)),
         Obj(Op("remove") @@ Path),
         Obj(Op("remove")),
         Obj(Op("replace") @@ K.path :> Num(1) @@ K.value :> Num(1)),
         Obj(Op("replace") @@ Path @@ K.value :> Null),
         Obj(Op("move") @@ Path @@ K.from :> Str("/b")),
         Obj(Op("move") @@ Path),
         Obj(Op("copy") @@ Path @@ K.from :> Num(1)),
         Obj(Op("test") @@ Path),
         Obj(Op("_get") @@ Path),
         Obj(Path @@ K.value :> Num(1)),
         Num(1)}
  IN {Arr(e) : e \in UNION {[1..n -> elems] : n \in 0..MaxPatchLen}}
       \cup {Null, Str("/a"), Obj(Op("add") @@ Path @@ K.value :> Num(1))}

(***************************************************************************)
(* SyncState (lib/sync-state).  _state is a reference into the heap.       *)
(***************************************************************************)
\* what a call on a SyncState leaves: the heap, _state, what the call
\* returned, and the object the caller passed in or got back (NoRef: none)
SyncOutcome(h, state_, ret_, ref) ==
  [heap |-> h, state |-> state_, ret |-> ret_, ref |-> ref]

\* this._state = schema.parse(initialState): parse returns a new object
ConstructorState(h, initialState) == Alloc(h)

\* new SyncState({schema, initialState}), initialState a reference; when
\* the constructor throws there is no instance
SyncState_new(h, schema_, initialState) ==
  IF ~Valid(schema_, h[initialState])
  THEN SyncOutcome(h, NoRef, Returned(TRUE, "ZodError", <<>>, Undefined),
                   initialState)
  ELSE SyncOutcome(Store(h, ConstructorState(h, initialState),
                         Parse(schema_, h[initialState]).v),
                   ConstructorState(h, initialState),
                   Returned(FALSE, "", <<>>, Undefined), initialState)

\* the functions passed to mutateAndDiff
Mutator(kind, value) == [kind |-> kind, value |-> value]
\* "returns": () => value
\* "push": (state) => { state.push(value); return state }
\* "spread": (state) => [...state, value]
\* "setAge": (state) => { state.age = value; return state }
\* "withAge": (state) => ({...state, age: value})
\* "throws": () => { throw new Error() }

\* the mutator changes its argument and returns it
MutatorInPlace(m) == m.kind \in {"push", "setAge"}
\* the value of the object the mutator returns, from its argument's
MutatorValue(m, arg) ==
  CASE m.kind = "returns" -> m.value
    [] m.kind \in {"push", "spread"} -> Arr(Append(arg.v, m.value))
    [] m.kind \in {"setAge", "withAge"} -> SetMember(arg, K_age, m.value)
\* the mutator that builds a new value with the content m leaves in place
Fresh(m) ==
  CASE m.kind = "push" -> Mutator("spread", m.value)
    [] m.kind = "setAge" -> Mutator("withAge", m.value)
    [] OTHER -> m

\* what the mutator's run leaves: the heap and the object it returned
MutatorRun(h, m, arg) ==
  IF MutatorInPlace(m)
  THEN [heap |-> Store(h, arg, MutatorValue(m, h[arg])), ref |-> arg]
  ELSE [heap |-> Store(h, Alloc(h), MutatorValue(m, h[arg])),
        ref |-> Alloc(h)]

\* structuredClone(this._state), the mutator's argument (line 45): a new
\* object; the faulty variant hands the mutator _state itself
MutatorArgument_Alias(h, state_) == state_

MutatorArgument(h, state_) == Alloc(h)

\* lines 46-48: diff threw, or this._state = updated; return operations
MutateCommitted(h, state_, updated, d) ==
  IF d.threw THEN SyncOutcome(h, state_, d, updated)
  ELSE SyncOutcome(h, updated, d, updated)

\* line 46 after the mutator's run: diff({original, updated}), original
\* the object _state referred to when the call began
MutateRan(schema_, state_, run) ==
  MutateCommitted(run.heap, state_, run.ref,
                  JsonPatch_diff(schema_, run.heap[state_],
                                 run.heap[run.ref]))

\* SyncState.mutateAndDiff(mutator)
SyncState_mutateAndDiff(h, schema_, state_, m) ==
  IF m.kind = "throws"
  THEN SyncOutcome(h, state_, Returned(TRUE, "Error", <<>>, Undefined), NoRef)
  ELSE MutateRan(schema_, state_,
                 MutatorRun(Store(h, MutatorArgument(h, state_), h[state_]),
                            m, MutatorArgument(h, state_)))

\* this._state = <what jsonPatch.apply returned> (line 59), unless it threw
ApplyCommitted(state_, r) ==
  IF r.ret.threw THEN SyncOutcome(r.heap, state_, r.ret, NoRef)
  ELSE SyncOutcome(Store(r.heap, Alloc(r.heap), r.ret.value), Alloc(r.heap),
                   r.ret, NoRef)

\* SyncState.apply(operations)
SyncState_apply(h, schema_, state_, operations) ==
  ApplyCommitted(state_, JsonPatch_apply(h, schema_, state_, operations))

\* structuredClone(this._state), what the getter returns (line 69): a new
\* object; the faulty variant returns _state itself
StateSnapshot_Alias(h, state_) == state_

StateSnapshot(h, state_) == Alloc(h)

\* get state()
SyncState_state(h, state_) ==
  SyncOutcome(Store(h, StateSnapshot(h, state_), h[state_]), state_,
              Returned(FALSE, "", <<>>, h[state_]), StateSnapshot(h, state_))

(***************************************************************************)
(* State.                                                                  *)
(***************************************************************************)
VARIABLES
  heap,    \* the JavaScript heap: cell -> document, or Free
  schema,  \* the schema of the JsonPatch / SyncState instances
  pc,      \* where the caller is
  args,    \* the arguments of the last call, and the values they had
  ret,     \* what the last call returned
  state,   \* _state of each SyncState: a reference, NoRef before construction
  held,    \* the object the caller's variable holds: {[ref, kind]}, or {}
  channel, \* the messages yielded by the producer and not yet consumed
  lost,    \* the transport dropped or swapped a message
  hookState,        \* useSyncStateStream: state
  isStreaming,      \* useSyncStateStream: isStreaming
  error,            \* useSyncStateStream: error
  updateTimeoutRef, \* updateTimeoutRef.current: a timer id, or NoTimer
  timers,  \* the timeouts set and neither fired nor cleared
  effect,  \* the number of runs of the effect so far
  aborted, \* abortController.signal.aborted of each run of the effect
  phase,   \* where startStreaming of each run of the effect is
  yielded  \* the values the streams have yielded

\* the variables of useSyncStateStream
hookVars ==
  <<hookState, isStreaming, error, updateTimeoutRef, timers, effect,
    aborted, phase, yielded>>
\* the variables of the transport and of the component
clientVars == <<lost, hookVars>>

vars == <<heap, schema, pc, args, ret, state, held, channel, clientVars>>

Instances == {"producer", "replica"}
NoState == [i \in Instances |-> NoRef]

\* the runs of the effect the model follows
MaxEffects == 2
Effects == 1..MaxEffects
\* the values a stream yields
MaxValue == 2
Values == {Num(n) : n \in 1..MaxValue}
\* the ids setTimeout returns; an id is used again once nothing holds it
MaxTimers == 2
TimerIds == 1..MaxTimers
NoTimer == 0

\* no message lost, the component not mounted: useState(null),
\* useState(false), useState(null), useRef(null)
ClientInit ==
  /\ lost = FALSE
  /\ hookState = Null
  /\ isStreaming = FALSE
  /\ error = Null
  /\ updateTimeoutRef = NoTimer
  /\ timers = {}
  /\ effect = 0
  /\ aborted = [e \in Effects |-> FALSE]
  /\ phase = [e \in Effects |-> "idle"]
  /\ yielded = {}

NoArgs == [original |-> NoRef, updated |-> NoRef, patch |-> <<>>,
           before |-> Undefined]
NoRet == Returned(FALSE, "", <<>>, Undefined)

(***************************************************************************)
(* SpecPatch: a caller of JsonPatch alone.  It builds documents, calls     *)
(* diff or apply on them, applies the patch diff returned to the same      *)
(* original, and drops everything.                                         *)
(***************************************************************************)
\* a call left the heap r.heap and returned r.ret
Outcome(r) == heap' = r.heap /\ ret' = r.ret

Init ==
  /\ heap = EmptyHeap
  /\ schema \in Schemas
  /\ pc = "idle"
  /\ args = NoArgs
  /\ ret = NoRet
  /\ state = NoState
  /\ held = {}
  /\ channel = <<>>
  /\ ClientInit

\* a JsonPatch of one of the schemas, no document built yet
InitPatch ==
  /\ heap = EmptyHeap
  /\ schema \in Schemas \cup {FooSchema}
  /\ pc = "idle"
  /\ args = NoArgs
  /\ ret = NoRet
  /\ state = NoState
  /\ held = {}
  /\ channel = <<>>
  /\ ClientInit

\* patcher.diff({ original, updated }) on two documents just built
PatchDiff ==
  /\ pc = "idle"
  /\ \E original \in Docs, updated \in Docs :
       /\ heap' = Store(Store(heap, 1, original), 2, updated)
       /\ args' = [original |-> 1, updated |-> 2, patch |-> <<>>,
                   before |-> original]
       /\ ret' = JsonPatch_diff(schema, original, updated)
  /\ pc' = "diffed"
  /\ UNCHANGED <<schema, state, held, channel, clientVars>>

\* patcher.apply({ original, patch }) with the patch diff just returned
PatchApplyDiff ==
  /\ pc = "diffed"
  /\ ~ret.threw
  /\ Outcome(JsonPatch_apply(heap, schema, args.original, ret.ops))
  /\ args' = [args EXCEPT !.patch = ret.ops]
  /\ pc' = "roundtrip"
  /\ UNCHANGED <<schema, state, held, channel, clientVars>>

\* patcher.apply({ original, patch }) on a document just built: a document
\* of the kind the schema describes, valid or not, or an empty array or an
\* object where the schema describes the other
PatchApply ==
  /\ pc = "idle"
  /\ \E original \in (IF schema = StateSchema THEN ArrDocs
                       ELSE IF schema = PersonSchema THEN ObjDocs
                       ELSE FooDocs)
                        \cup {Arr(<<>>), Obj(K_name :> Str("a"))},
        patch \in Patches :
       /\ IsArr(original) => Len(original.v) + Len(patch) <= MaxInput
       /\ Outcome(JsonPatch_apply(Store(heap, 1, original), schema, 1,
                                  patch))
       /\ args' = [original |-> 1, updated |-> NoRef, patch |-> patch,
                      before |-> original]
  /\ pc' = "applied"
  /\ UNCHANGED <<schema, state, held, channel, clientVars>>

\* JsonPatch.validatePatch(patch) on a decoded value
PatchValidate ==
  /\ pc = "idle"
  /\ \E patch \in RawPatches :
       /\ ret' = validatePatch(patch)
       /\ args' = [NoArgs EXCEPT !.before = patch]
  /\ pc' = "validated"
  /\ UNCHANGED <<heap, schema, state, held, channel, clientVars>>

\* the caller drops the documents and the result
PatchReturn ==
  /\ pc # "idle"
  /\ heap' = EmptyHeap
  /\ pc' = "idle"
  /\ args' = NoArgs
  /\ ret' = NoRet
  /\ UNCHANGED <<schema, state, held, channel, clientVars>>

NextPatch ==
  PatchDiff \/ PatchApplyDiff \/ PatchApply \/ PatchValidate \/ PatchReturn

SpecPatch == InitPatch /\ [][NextPatch]_vars

(***************************************************************************)
(* The callers of SyncState.                                               *)
(***************************************************************************)
\* the documents a caller builds and the mutators it passes, by the type
\* of the state
SyncDocs(schema_) ==
  IF schema_ = StateSchema
  THEN {d \in ArrDocs : Len(d.v) <= MaxStateLen}
  ELSE ObjDocs
Mutators(schema_) ==
  IF schema_ = StateSchema
  THEN {Mutator("returns", d) : d \in SyncDocs(schema_)}
         \cup {Mutator("push", e) : e \in Elems}
         \cup {Mutator("spread", e) : e \in Elems}
         \cup {Mutator("throws", Undefined)}
  ELSE {Mutator("returns", d) : d \in SyncDocs(schema_)}
         \cup {Mutator("setAge", v) : v \in {Num(2), Str("2")}}
         \cup {Mutator("withAge", v) : v \in {Num(2), Str("2")}}
         \cup {Mutator("throws", Undefined)}
\* the state arrays of the model have at most MaxStateLen elements
MutatorFits(m, arg) ==
  m.kind \in {"push", "spread"} => Len(arg.v) < MaxStateLen

\* the document of SyncState i
StateValue(i) == IF state[i] = NoRef THEN Undefined ELSE heap[state[i]]

\* the objects the caller holds from now on
Kept(keep, ref, kind) ==
  IF keep /\ ref # NoRef THEN {[ref |-> ref, kind |-> kind]} ELSE {}

\* a call on SyncState i returned: out is what it left, kept the objects
\* the caller keeps; the objects nobody refers to are collected
Called(i, call, input, out, kept) ==
  /\ state' = [state EXCEPT ![i] = out.state]
  /\ held' = held \cup kept
  /\ heap' = Collect(out.heap, {state'[j] : j \in Instances}
                                 \cup {k.ref : k \in held'})
  /\ ret' = out.ret
  /\ pc' = call
  /\ args' = [on |-> i, before |-> StateValue(i), input |-> input]
  /\ UNCHANGED <<schema, clientVars>>

\* new SyncState({schema, initialState}) on a document just built
Construct(i, initialState, keep) ==
  /\ state[i] = NoRef
  /\ keep => held = {}
  /\ Called(i, "constructed", initialState,
            SyncState_new(Store(heap, Alloc(heap), initialState), schema,
                          Alloc(heap)),
            Kept(keep, Alloc(heap), "initialState"))

\* syncState.mutateAndDiff(m); the caller may keep what m returned
Mutated(i, m, keep, out) ==
  Called(i, "mutated", m, out, Kept(keep, out.ref, "result"))

MutateAndDiff(i, m, keep) ==
  /\ state[i] # NoRef
  /\ MutatorFits(m, heap[state[i]])
  /\ keep => held = {}
  /\ Mutated(i, m, keep, SyncState_mutateAndDiff(heap, schema, state[i], m))

\* the arrays of the model have at most MaxLen elements
Fits(out) ==
  IsArr(out.heap[out.state]) => Len(out.heap[out.state].v) <= MaxLen

\* syncState.apply(operations)
ApplyReturned(i, operations, out) ==
  Fits(out) /\ Called(i, "applied", operations, out, {})

Apply(i, operations) ==
  /\ state[i] # NoRef
  /\ ApplyReturned(i, operations,
             SyncState_apply(heap, schema, state[i], operations))

\* syncState.state; the caller may keep the snapshot
Snapshot(i, keep, out) ==
  Called(i, "read", <<>>, out, Kept(keep, out.ref, "snapshot"))

Read(i, keep) ==
  /\ state[i] # NoRef
  /\ keep => held = {}
  /\ Snapshot(i, keep, SyncState_state(heap, state[i]))

(***************************************************************************)
(* Spec: one SyncState and a caller that constructs it, calls              *)
(* mutateAndDiff and apply on it and reads its state.                      *)
(***************************************************************************)
NewSyncState ==
  /\ pc = "idle"
  /\ \E initialState \in SyncDocs(schema) :
       Construct("producer", initialState, FALSE)
  /\ UNCHANGED channel

CallMutateAndDiff ==
  /\ pc = "idle"
  /\ \E m \in Mutators(schema) : MutateAndDiff("producer", m, FALSE)
  /\ UNCHANGED channel

CallApply ==
  /\ pc = "idle"
  /\ \E operations \in Patches : Apply("producer", operations)
  /\ UNCHANGED channel

ReadState ==
  /\ pc = "idle"
  /\ Read("producer", FALSE)
  /\ UNCHANGED channel

\* the caller has looked at what the call returned and goes on
Return ==
  /\ pc # "idle"
  /\ pc' = "idle"
  /\ args' = NoArgs
  /\ ret' = NoRet
  /\ UNCHANGED <<heap, schema, state, held, channel, clientVars>>

Next ==
  NewSyncState \/ CallMutateAndDiff \/ CallApply \/ ReadState \/ Return

Spec == Init /\ [][Next]_vars

(***************************************************************************)
(* SpecAlias: the same caller, which also changes in place the objects it  *)
(* holds: the initialState it passed, what its mutators returned, the      *)
(* snapshots it read.                                                      *)
(***************************************************************************)
AliasNew ==
  /\ pc = "idle"
  /\ \E initialState \in SyncDocs(schema), keep \in BOOLEAN :
       Construct("producer", initialState, keep)
  /\ UNCHANGED channel

AliasMutate ==
  /\ pc = "idle"
  /\ \E m \in Mutators(schema), keep \in BOOLEAN :
       MutateAndDiff("producer", m, keep)
  /\ UNCHANGED channel

AliasApply ==
  /\ pc = "idle"
  /\ \E operations \in {patch \in Patches : Len(patch) <= 1} :
       Apply("producer", operations)
  /\ IsArr(StateValue("producer")') =>
       Len(StateValue("producer")'.v) <= MaxStateLen
  /\ UNCHANGED channel

\* a read may follow a read at once
AliasRead ==
  /\ pc \in {"idle", "read"}
  /\ \E keep \in BOOLEAN : Read("producer", keep)
  /\ UNCHANGED channel

\* an assignment or a push on a held object: its content becomes v
CallerMutate ==
  /\ pc = "idle"
  /\ \E k \in held, v \in SyncDocs(schema) :
       /\ v # heap[k.ref]
       /\ heap' = Store(heap, k.ref, v)
       /\ args' = [on |-> k.kind, before |-> StateValue("producer"),
                   input |-> v]
  /\ pc' = "callerMutate"
  /\ ret' = NoRet
  /\ UNCHANGED <<schema, state, held, channel, clientVars>>

\* the caller lets go of the objects it holds
CallerDrop ==
  /\ pc = "idle"
  /\ held # {}
  /\ held' = {}
  /\ heap' = Collect(heap, {state[j] : j \in Instances})
  /\ UNCHANGED <<schema, pc, args, ret, state, channel, clientVars>>

NextAlias ==
  \/ AliasNew
  \/ AliasMutate
  \/ AliasApply
  \/ AliasRead
  \/ CallerMutate
  \/ CallerDrop
  \/ Return

SpecAlias == Init /\ [][NextAlias]_vars

(***************************************************************************)
(* SpecStream: the streamingObjects endpoint and a replica.  The producer  *)
(* yields the operations of each mutateAndDiff with its state; the replica,*)
(* constructed from the same initialState, applies the operations in       *)
(* order.                                                                  *)
(***************************************************************************)
Message(operations, state_) == [operations |-> operations, state |-> state_]

\* const syncState = new SyncState(...);
\* yield {operations: [], state: syncState.state}
NewProducer ==
  /\ \E initialState \in SyncDocs(schema) :
       Construct("producer", initialState, FALSE)
  /\ channel' = IF ret'.threw THEN channel
                ELSE <<Message(<<>>, heap'[state'["producer"]])>>

\* the replica is constructed with the initialState of the producer
NewReplica ==
  /\ pc = "constructed"
  /\ args.on = "producer"
  /\ state["producer"] # NoRef
  /\ Construct("replica", args.input, FALSE)
  /\ UNCHANGED channel

\* const operations = syncState.mutateAndDiff(...);
\* yield {operations, state: syncState.state}
ProducerMutate ==
  /\ state["replica"] # NoRef
  /\ Len(channel) < MaxQueue
  /\ \E m \in Mutators(schema) : MutateAndDiff("producer", m, FALSE)
  /\ channel' = IF ret'.threw THEN channel
                ELSE Append(channel,
                            Message(ret'.ops, heap'[state'["producer"]]))

\* the faulty variant adopts the state the message carries
ReplicaApply_Resync ==
  /\ channel # <<>>
  /\ state["replica"] # NoRef
  /\ Called("replica", "applied", Head(channel),
            ApplyCommitted(state["replica"],
                           ApplyOutcome(Returned(FALSE, "", <<>>,
                                                 Head(channel).state),
                                        heap)), {})
  /\ channel' = Tail(channel)

\* for await (const operations of operationsIterable)
\*   syncStateRef.current.apply(operations)
ReplicaApply ==
  /\ channel # <<>>
  /\ state["replica"] # NoRef
  /\ Called("replica", "applied", Head(channel),
            SyncState_apply(heap, schema, state["replica"],
                            Head(channel).operations), {})
  /\ channel' = Tail(channel)

NextStream == NewProducer \/ NewReplica \/ ProducerMutate \/ ReplicaApply

SpecStream == Init /\ [][NextStream]_vars

(***************************************************************************)
(* SpecPage: the streamingObjects endpoint and the /objects page, whose    *)
(* loop hands every value it receives to the apply of its SyncState.       *)
(***************************************************************************)
\* for await (const operations of operationsIterable)
\*   syncStateRef.current.apply(operations as Operation[])
\* operations is the value the endpoint yielded, the message itself.  (An
\* error ends the loop; a later turn is that of a page mounted again.)
ClientApply ==
  /\ channel # <<>>
  /\ state["replica"] # NoRef
  /\ Called("replica", "received", Head(channel),
            ApplyCommitted(state["replica"],
                           JsonPatch_applyObject(heap, schema,
                                                 state["replica"])), {})
  /\ channel' = Tail(channel)

NextPage == NewProducer \/ NewReplica \/ ProducerMutate \/ ClientApply

SpecPage == Init /\ [][NextPage]_vars

(***************************************************************************)
(* Properties of JsonPatch, checked under SpecPatch.                       *)
(***************************************************************************)
\* the last call was diff, and both documents passed the validation
DiffedValid ==
  /\ pc \in {"diffed", "roundtrip"}
  /\ Valid(schema, args.before)
  /\ Valid(schema, heap[args.updated])

\* C2: for schema-valid original and updated, apply of the patch diff
\* returned on original succeeds and returns a document deep-equal to
\* updated
C2_RoundTrip ==
  (pc = "roundtrip" /\ DiffedValid)
    => (~ret.threw /\ ret.value = heap[args.updated])

\* what the round trip does return: updated as the schema's parse returns it
RoundTripNormalized ==
  (pc = "roundtrip" /\ DiffedValid)
    => (~ret.threw /\ ret.value = Parse(schema, heap[args.updated]).v)

\* C4: after apply returned or threw, original is deep-equal to the value
\* it had before the call
C4_ApplyLeavesOriginal ==
  pc \in {"applied", "roundtrip"} => heap[args.original] = args.before

\* apply returned a document that differs from original, and apply threw
\* at the second operation of a patch whose first operation had applied
C4_Witness ==
  /\ pc = "applied"
  /\ \/ ~ret.threw /\ ret.value # args.before
     \/ /\ ret.threw
        /\ Len(args.patch) = 2
        /\ applyPatch(args.before, SubSeq(args.patch, 1, 1)).err = ""
        /\ applyPatch(args.before, SubSeq(args.patch, 1, 1)).doc # args.before

\* C9: apply returns a document exactly when original satisfies the
\* schema, every operation applies and the patched document satisfies the
\* schema; the document is then the whole patch's result as the schema
\* parses it, and when apply throws there is no document
C9_ApplyAllOrNothing ==
  pc = "applied" =>
    /\ ~ret.threw <=>
         /\ Valid(schema, args.before)
         /\ applyPatch(args.before, args.patch).err = ""
         /\ Valid(schema, applyPatch(args.before, args.patch).doc)
    /\ ~ret.threw =>
         ret.value = Parse(schema, applyPatch(args.before, args.patch).doc).v
    /\ ret.threw => ret.value = Undefined

\* apply threw on a valid original whose first operation had applied:
\* the second failed, or the patched document is invalid
C9_Witness ==
  /\ pc = "applied"
  /\ ret.threw
  /\ Valid(schema, args.before)
  /\ Len(args.patch) = 2
  /\ applyPatch(args.before, SubSeq(args.patch, 1, 1)).err = ""
  /\ applyPatch(args.before, SubSeq(args.patch, 1, 1)).doc # args.before
  /\ ret.error = "ZodError"

\* C10: diff of a schema-valid document against a deep-equal document, a
\* distinct copy of it included, is the empty sequence
C10_EmptyDiff ==
  (pc = "diffed" /\ Valid(schema, args.before)
     /\ heap[args.updated] = args.before)
    => (~ret.threw /\ ret.ops = <<>>)

\* diff was called on a non-empty valid document and a copy of it in
\* another cell
C10_Witness ==
  /\ pc = "diffed"
  /\ Valid(schema, args.before)
  /\ heap[args.updated] = args.before
  /\ args.updated # args.original
  /\ args.before \notin {Arr(<<>>), Obj(<<>>)}

\* the round trip returned a document that is not updated
C2_Witness ==
  pc = "roundtrip" /\ DiffedValid /\ ~ret.threw
    /\ ret.value # heap[args.updated]

(***************************************************************************)
(* Properties of SyncState, checked under Spec.                            *)
(***************************************************************************)
\* the first operation of the patch applies to doc and changes it
FirstOperationChanges(doc, patch) ==
  /\ Len(patch) = 2
  /\ applyPatch(doc, SubSeq(patch, 1, 1)).err = ""
  /\ applyPatch(doc, SubSeq(patch, 1, 1)).doc # doc

\* C3: whenever SyncState.apply throws, the state after the call is
\* deep-equal to the state before it: nothing of the operations that
\* preceded the failing one is committed
C3_AtomicFailure ==
  (pc = "applied" /\ ret.threw) => StateValue(args.on) = args.before

\* apply threw after the first operation of its patch had applied
C3_Witness ==
  /\ pc = "applied"
  /\ ret.threw
  /\ FirstOperationChanges(args.before, args.input)

\* C7: a mutator that changes its argument in place and returns it gives
\* what the mutator that builds a fresh value with the same content gives
\* from the same state: the same returned operations, which are the diff
\* of the document before the call against the result, and the same
\* committed state
C7_InPlaceAsFresh ==
  [][(pc' = "mutated" /\ MutatorInPlace(args'.input)) =>
       /\ ret' = SyncState_mutateAndDiff(heap, schema, state["producer"],
                                         Fresh(args'.input)).ret
       /\ StateValue("producer")' =
            IF ret'.threw THEN StateValue("producer")
            ELSE MutatorValue(args'.input, StateValue("producer"))
       /\ ~ret'.threw =>
            ret'.ops = compare(StateValue("producer"),
                               MutatorValue(args'.input,
                                            StateValue("producer")))]_vars

\* mutateAndDiff returned operations for a mutator that changed its
\* argument in place
C7_Witness ==
  /\ pc = "mutated"
  /\ MutatorInPlace(args.input)
  /\ ~ret.threw
  /\ ret.ops # <<>>
  /\ StateValue("producer") # args.before

\* C8: the constructor fails on an initialState that does not satisfy the
\* schema, and the document a SyncState holds satisfies the schema after
\* every mutateAndDiff and apply, successful or failing
C8_SchemaInvariant ==
  /\ (pc = "constructed" /\ ~Valid(schema, args.input))
       => (ret.threw /\ state[args.on] = NoRef)
  /\ \A i \in Instances :
       state[i] # NoRef => Valid(schema, StateValue(i))

\* mutateAndDiff rejected the invalid value its mutator returned
C8_Witness ==
  /\ pc = "mutated"
  /\ ret.threw
  /\ ret.error = "ZodError"
  /\ state["producer"] # NoRef

(***************************************************************************)
(* Properties of SyncState and the objects its caller holds, checked       *)
(* under SpecAlias.                                                        *)
(***************************************************************************)
\* C5: a caller that changes in place an object it still holds (the
\* initialState it passed, the value its mutator returned) does not change
\* what SyncState.state returns
C5_NeverAliased ==
  [][pc' = "callerMutate" =>
       StateValue("producer")' = StateValue("producer")]_vars

\* C6: changing a snapshot SyncState.state returned changes neither what
\* a later SyncState.state returns nor the operations a later
\* mutateAndDiff returns, and two reads with no operation in between
\* return deep-equal documents
C6_SnapshotIndependent ==
  [][/\ (pc' = "callerMutate" /\ args'.on = "snapshot") =>
          /\ StateValue("producer")' = StateValue("producer")
          /\ \A m \in Mutators(schema) :
               MutatorFits(m, StateValue("producer")) =>
                 SyncState_mutateAndDiff(heap', schema, state["producer"],
                                         m).ret
                   = SyncState_mutateAndDiff(heap, schema, state["producer"],
                                             m).ret
     /\ (pc = "read" /\ pc' = "read") => ret'.value = ret.value]_vars

\* the caller changed a snapshot it had read, which now differs from the
\* document
C6_Witness ==
  /\ pc = "callerMutate"
  /\ args.on = "snapshot"
  /\ \E k \in held : k.kind = "snapshot" /\ heap[k.ref] # StateValue("producer")

(***************************************************************************)
(* Properties of the producer and its replica, checked under SpecStream.   *)
(***************************************************************************)
\* C1: every replica.apply of the operations the producer returned, taken
\* in order, succeeds, and leaves the replica's state deep-equal to the
\* producer's state as it was after the mutation that returned them
C1_ReplicaFollows ==
  (pc = "applied" /\ args.on = "replica")
    => (~ret.threw /\ StateValue("replica") = args.input.state)

(***************************************************************************)
(* More properties of JsonPatch, checked under SpecPatch.                  *)
(***************************************************************************)
\* C11: for every schema-valid document x, apply of the empty patch to x
\* returns a document deep-equal to x
C11_NoOpApply ==
  (pc = "applied" /\ args.patch = <<>> /\ Valid(schema, args.before))
    => (~ret.threw /\ ret.value = args.before)

\* what apply of the empty patch does return: x as the schema parses it
NoOpApplyNormalized ==
  (pc = "applied" /\ args.patch = <<>> /\ Valid(schema, args.before))
    => (~ret.threw /\ ret.value = Parse(schema, args.before).v)

\* getValueByPointer(doc, path)
ValueAt(doc, path) == applyPlain(doc, OpGet(path)).removed

\* the document the operations before the i-th leave
Before(doc, patch, i) == applyPatch(doc, SubSeq(patch, 1, i - 1))

\* the operations before the test applied (b is what they left), and the
\* value at the path of the test is not its value
TestDiffers(b, op) == b.err = "" /\ ValueAt(b.doc, op.path) # op.value

\* C12: a test operation succeeds only when the value at its path is
\* deep-equal, type-sensitively, to its value; a test that fails, at any
\* position, makes apply throw: no document is returned and the original
\* shows nothing of the operations before the test
C12_TestAborts ==
  (pc = "applied" /\ Valid(schema, args.before)) =>
    \A i \in 1..Len(args.patch) :
      (args.patch[i].op = "test"
         /\ TestDiffers(Before(args.before, args.patch, i), args.patch[i]))
        => /\ ret.threw
           /\ ret.value = Undefined
           /\ heap[args.original] = args.before

\* a test of the number 1 failed on the string "1" that the operation
\* before it had written
C12_Witness ==
  /\ pc = "applied"
  /\ ret.threw
  /\ ret.error = "TEST_OPERATION_FAILED"
  /\ FirstOperationChanges(args.before, args.patch)
  /\ args.patch[2].op = "test"
  /\ args.patch[2].value = Num(1)
  /\ ValueAt(Before(args.before, args.patch, 2).doc, args.patch[2].path)
       = Str("1")

\* C13: diff validates original and updated before it compares them: when
\* either is not schema-valid, diff throws the validation error and returns
\* no operations
C13_DiffValidatesBoth ==
  (pc = "diffed"
     /\ (~Valid(schema, heap[args.original])
           \/ ~Valid(schema, heap[args.updated])))
    => (ret.threw /\ ret.error = "ZodError" /\ ret.ops = <<>>)

\* diff threw on a valid original and an invalid updated that differ
C13_Witness ==
  /\ pc = "diffed"
  /\ Valid(schema, heap[args.original])
  /\ ~Valid(schema, heap[args.updated])
  /\ compare(heap[args.original], heap[args.updated]) # <<>>
  /\ ret.threw
  /\ ret.error = "ZodError"

\* diff of { foo: ["bar", "baz"] } and { foo: ["bar", "qux", "baz"] }
DiffedInsertion ==
  /\ pc = "diffed"
  /\ schema = FooSchema
  /\ heap[args.original] = Obj(K_foo :> Arr(<<Str("bar"), Str("baz")>>))
  /\ heap[args.updated]
       = Obj(K_foo :> Arr(<<Str("bar"), Str("qux"), Str("baz")>>))

\* as stated: the diff is the single add of "qux" at /foo/1
C14_SingleAdd ==
  DiffedInsertion
    => (~ret.threw
          /\ ret.ops = <<OpAdd(Pointer(<<K_foo, <<"1">>>>), Str("qux"))>>)

\* C14: the diff of { foo: ["bar", "baz"] } and { foo: ["bar", "qux", "baz"] }
\* is exactly the replace of /foo/1 by "qux", then the add of "baz" at
\* /foo/2: the arrays are compared index by index
C14_ReplaceThenAdd ==
  DiffedInsertion
    => (~ret.threw
          /\ ret.ops = <<OpReplace(Pointer(<<K_foo, <<"1">>>>), Str("qux")),
                         OpAdd(Pointer(<<K_foo, <<"2">>>>), Str("baz"))>>)

\* that diff returned two operations
C14_Witness == DiffedInsertion /\ ~ret.threw /\ Len(ret.ops) = 2

\* the pointer to the parent of the target of path, and the last key of path
ParentOf(path) == Join(SubSeq(Split(path), 1, Len(Split(path)) - 1))

LastKey(path) == Split(path)[Len(Split(path))]

\* the container an operation at path acts on
Holder(doc, path) ==
  IF ParentOf(path) = <<>> THEN doc ELSE ValueAt(doc, ParentOf(path))

\* the ways an operation fails on the document doc
MalformedPath(op) == op.path # <<>> /\ op.path[1] # "/"

PathNotFound(doc, op) ==
  /\ op.path # <<>> /\ ~MalformedPath(op)
  /\ \/ op.op \in {"remove", "replace"} /\ ValueAt(doc, op.path) = Undefined
     \/ op.op = "add" /\ Holder(doc, op.path) = Undefined

\* a member name where the target is an array
TypeMismatch(doc, op) ==
  /\ op.path # <<>> /\ ~MalformedPath(op)
  /\ op.op \in {"add", "test"}
  /\ IsArr(Holder(doc, op.path))
  /\ ~isInteger(LastKey(op.path)) /\ LastKey(op.path) # <<"-">>

TestFails(doc, op) ==
  /\ op.path # <<>> /\ ~MalformedPath(op)
  /\ op.op = "test"
  /\ IsContainer(Holder(doc, op.path))
  /\ ~TypeMismatch(doc, op)
  /\ ValueAt(doc, op.path) # op.value

\* the patch applied (b is what it left) and the schema rejects the document
Rejected(b) == b.err = "" /\ ~Valid(schema, b.doc)

\* when the operations before op applied (b is what they left), the error
\* of apply is that of the way op fails
KindAt(b, op) ==
  b.err = "" =>
    /\ MalformedPath(op)
         => (ret.threw /\ ret.error = "OPERATION_PATH_INVALID")
    /\ PathNotFound(b.doc, op)
         => (ret.threw /\ ret.error \in {"OPERATION_PATH_UNRESOLVABLE",
                                         "OPERATION_PATH_CANNOT_ADD"})
    /\ TypeMismatch(b.doc, op)
         => (ret.threw /\ ret.error = "OPERATION_PATH_ILLEGAL_ARRAY_INDEX")
    /\ TestFails(b.doc, op)
         => (ret.threw /\ ret.error = "TEST_OPERATION_FAILED")

NotFoundAt(b, op) == b.err = "" /\ PathNotFound(b.doc, op)

\* C16: apply throws and returns no document when a remove or a replace
\* targets a member or an array element that does not exist, and when an
\* add targets a member of a parent that does not exist
C16_MissingTargetThrows ==
  (pc = "applied" /\ Valid(schema, args.before)) =>
    \A i \in 1..Len(args.patch) :
      NotFoundAt(Before(args.before, args.patch, i), args.patch[i])
        => (ret.threw /\ ret.value = Undefined)

\* a replace of the element 1 of an array of one element threw
C16_Witness ==
  /\ pc = "applied"
  /\ Valid(schema, args.before)
  /\ IsArr(args.before) /\ Len(args.before.v) = 1
  /\ args.patch = <<OpReplace(Pointer(<<<<"1">>>>), Count(2))>>
  /\ ret.threw
  /\ ret.error = "OPERATION_PATH_UNRESOLVABLE"

\* an operation as the claim describes it: an op of the six, a string path,
\* a value for add, replace and test, a string from for move and copy
WellFormedOperation(e, valueRequired) ==
  /\ IsObj(e)
  /\ OperationKey.op \in DOMAIN e.v
  /\ e.v[OperationKey.op]
       \in {Str(tag) : tag \in {"add", "remove", "replace", "move", "copy",
                                "test"}}
  /\ OperationKey.path \in DOMAIN e.v
  /\ e.v[OperationKey.path].t = "str"
  /\ (valueRequired
        /\ e.v[OperationKey.op] \in {Str("add"), Str("replace"), Str("test")})
       => OperationKey.value \in DOMAIN e.v
  /\ e.v[OperationKey.op] \in {Str("move"), Str("copy")}
       => (OperationKey.from \in DOMAIN e.v
             /\ e.v[OperationKey.from].t = "str")

WellFormedPatch(v, valueRequired) ==
  IsArr(v) /\ \A i \in 1..Len(v.v) : WellFormedOperation(v.v[i], valueRequired)

\* C17: validatePatch(v) succeeds exactly when v is an array of well-formed
\* operations, and throws otherwise
C17_ValidatePatchExact ==
  pc = "validated" => (~ret.threw <=> WellFormedPatch(args.before, TRUE))

\* what validatePatch does: the same, except that it asks no value of an
\* add, a replace or a test; members no operation has are accepted
ValidatePatchValueOptional ==
  pc = "validated" => (~ret.threw <=> WellFormedPatch(args.before, FALSE))

(* More properties of SyncState, checked under Spec. *)
\* the decoded value an operation of the model is
RawOperation(o) ==
  Obj(OperationKey.op :> Str(o.op) @@ OperationKey.path :> Str(o.path)
        @@ (IF o.from = Absent THEN <<>>
            ELSE OperationKey.from :> Str(o.from))
        @@ (IF o.value = Undefined THEN <<>>
            ELSE OperationKey.value :> o.value))

RawPatch(operations) ==
  Arr([i \in 1..Len(operations) |-> RawOperation(operations[i])])

\* C18: SyncState.apply validates its operations argument: no value that
\* validatePatch rejects is applied and committed
C18_ApplyValidatesSyntax ==
  (pc = "applied" /\ ~ret.threw) => ~validatePatch(RawPatch(args.input)).threw

(* Properties of the endpoint and the /objects page, checked under         *)
(* SpecPage.                                                               *)
\* C19: every apply of the page on a message it received succeeds, and
\* leaves the state of the page deep-equal to the state of the server when
\* the message was yielded
C19_PageFollows ==
  pc = "received"
    => (~ret.threw /\ StateValue("replica") = args.input.state)

\* C20: no message yielded after the first carries a snapshot of the state
\* of the server (a message behind another in the channel is not the first)
C20_OnlyDeltas ==
  \A i \in 2..Len(channel) : channel[i].state = Undefined

(* More properties of diff, checked under SpecPatch. *)
\* the path of the element i (from 0) of an array that is the document
IndexPath(i) == <<"/">> \o IntToStr(i)

\* the last operations of ops add the elements n .. m - 1 of updated, in
\* this order
TrailingAdds(ops, updated, n, m) ==
  /\ Len(ops) >= m - n
  /\ \A k \in 1..(m - n) :
       ops[Len(ops) - (m - n) + k]
         = OpAdd(IndexPath(n + k - 1), updated.v[n + k])

\* the first operations of ops remove the elements n - 1 down to m, in this
\* order, and applied in this order they leave the first m elements
TrailingRemoves(ops, original, n, m) ==
  /\ Len(ops) >= n - m
  /\ \A k \in 1..(n - m) : ops[k] = OpRemove(IndexPath(n - k))
  /\ applyPatch(original, SubSeq(ops, 1, n - m)).err = ""
  /\ applyPatch(original, SubSeq(ops, 1, n - m)).doc
       = Arr(SubSeq(original.v, 1, m))

\* C22: when diff compares two arrays of different length, the operations
\* for the trailing indices are adds in ascending order when updated is
\* longer and removes in descending order when original is longer, and
\* every remove addresses an index the shrinking array still has
C22_TrailingOrder ==
  (pc = "diffed" /\ ~ret.threw
     /\ IsArr(heap[args.original]) /\ IsArr(heap[args.updated])) =>
    /\ Len(heap[args.updated].v) > Len(heap[args.original].v)
         => TrailingAdds(ret.ops, heap[args.updated],
                         Len(heap[args.original].v),
                         Len(heap[args.updated].v))
    /\ Len(heap[args.original].v) > Len(heap[args.updated].v)
         => TrailingRemoves(ret.ops, heap[args.original],
                            Len(heap[args.original].v),
                            Len(heap[args.updated].v))

\* two elements were removed, the last first; and two were added
C22_Witness ==
  /\ pc = "diffed" /\ ~ret.threw
  /\ IsArr(heap[args.original]) /\ IsArr(heap[args.updated])
  /\ Len(heap[args.original].v) = 2
  /\ heap[args.updated] = Arr(<<>>)
  /\ ret.ops = <<OpRemove(IndexPath(1)), OpRemove(IndexPath(0))>>

(* More properties of apply, checked under SpecPatch. *)
\* the array with value before its element i (from 0)
Inserted(arr, i, value) ==
  Arr(SubSeq(arr.v, 1, i) \o <<value>> \o SubSeq(arr.v, i + 1, Len(arr.v)))

\* op adds to the array that is the document, at an index or at "-"
AddsToArray(doc, op) ==
  /\ op.op = "add"
  /\ IsArr(doc)
  /\ op.path # <<>> /\ ~MalformedPath(op)
  /\ Len(Split(op.path)) = 2
  /\ (isInteger(LastKey(op.path)) \/ LastKey(op.path) = <<"-">>)

\* where op adds
AddIndex(doc, op) ==
  IF LastKey(op.path) = <<"-">> THEN Len(doc.v) ELSE ToInt(LastKey(op.path))

\* the operations before op left b and op left after: an add to an array
\* inserts at its index, and throws when the index is beyond the length
AddInserts(b, op, after) ==
  (b.err = "" /\ AddsToArray(b.doc, op)) =>
    IF AddIndex(b.doc, op) <= Len(b.doc.v)
    THEN after.err = ""
           /\ after.doc = Inserted(b.doc, AddIndex(b.doc, op), op.value)
    ELSE after.err # "" /\ ret.threw /\ ret.value = Undefined

\* C23: an add whose parent is an array inserts at its index and shifts the
\* later elements right, or appends for "-"; with an index greater than the
\* length of the array apply throws and returns no document
C23_AddToArray ==
  (pc = "applied" /\ Valid(schema, args.before)) =>
    /\ \A i \in 1..Len(args.patch) :
         AddInserts(Before(args.before, args.patch, i), args.patch[i],
                    Before(args.before, args.patch, i + 1))
    /\ (Len(args.patch) = 1 /\ AddsToArray(args.before, args.patch[1])
          /\ AddIndex(args.before, args.patch[1]) <= Len(args.before.v)
          /\ Valid(schema, applyPatch(args.before, args.patch).doc))
         => (~ret.threw
               /\ ret.value
                    = Parse(schema,
                            Inserted(args.before,
                                     AddIndex(args.before, args.patch[1]),
                                     args.patch[1].value)).v)

\* an add at 0 of an array of two elements returned three; an add at 1 of
\* the empty array threw
C23_Witness ==
  /\ pc = "applied"
  /\ Valid(schema, args.before)
  /\ Len(args.patch) = 1
  /\ AddsToArray(args.before, args.patch[1])
  /\ \/ /\ Len(args.before.v) = 2
        /\ AddIndex(args.before, args.patch[1]) = 0
        /\ ~ret.threw
        /\ ret.value.v[2] = args.before.v[1]
     \/ /\ Len(args.before.v) = 0
        /\ AddIndex(args.before, args.patch[1]) = 1
        /\ ret.threw

\* the patch a move stands for: the remove at from, then the add at path of
\* the value that was at from
RemoveThenAdd(doc, op) ==
  <<OpRemove(op.from), OpAdd(op.path, ValueAt(doc, op.from))>>

\* two outcomes of applyPatch are the same: both throw, or both return the
\* same document
SameResult(r1, r2) ==
  /\ (r1.err = "") = (r2.err = "")
  /\ r1.err = "" => r1.doc = r2.doc

\* the operations before op left b and op left after: a move from a value
\* that is not there throws, and any other move leaves what the remove and
\* the add leave
MoveIsRemoveAdd(b, op, after) ==
  (b.err = "" /\ op.op = "move") =>
    IF ValueAt(b.doc, op.from) = Undefined
    THEN after.err # "" /\ ret.threw
    ELSE SameResult(after, applyPatch(b.doc, RemoveThenAdd(b.doc, op)))

\* C24: a move has the result of the remove at from followed by the add at
\* path of the removed value; from must exist, otherwise apply throws
C24_MoveIsRemoveAdd ==
  (pc = "applied" /\ Valid(schema, args.before)) =>
    \A i \in 1..Len(args.patch) :
      MoveIsRemoveAdd(Before(args.before, args.patch, i), args.patch[i],
                      Before(args.before, args.patch, i + 1))

\* what a move does: where the remove and the add apply, the move leaves
\* what they leave; it also applies where the add alone would throw
MoveWhereRemoveAddApply(b, op, after) ==
  (b.err = "" /\ op.op = "move") =>
    IF ValueAt(b.doc, op.from) = Undefined
    THEN after.err # "" /\ ret.threw
    ELSE applyPatch(b.doc, RemoveThenAdd(b.doc, op)).err = ""
           => SameResult(after, applyPatch(b.doc, RemoveThenAdd(b.doc, op)))

MoveFollowsRemoveAdd ==
  (pc = "applied" /\ Valid(schema, args.before)) =>
    \A i \in 1..Len(args.patch) :
      MoveWhereRemoveAddApply(Before(args.before, args.patch, i),
                              args.patch[i],
                              Before(args.before, args.patch, i + 1))

\* path addresses a descendant of what from addresses
IsDescendant(path, from) ==
  /\ Len(path) > Len(from)
  /\ SubSeq(path, 1, Len(from) + 1) = from \o <<"/">>

\* the operations before op applied (b is what they left) and op moves a
\* value that is there into itself
MovesIntoItself(b, op) ==
  /\ b.err = ""
  /\ op.op = "move"
  /\ IsDescendant(op.path, op.from)
  /\ ValueAt(b.doc, op.from) # Undefined

\* C25: a move whose path is a descendant of its from is rejected: apply
\* throws and returns no document
C25_MoveIntoItselfRejected ==
  (pc = "applied" /\ Valid(schema, args.before)) =>
    \A i \in 1..Len(args.patch) :
      MovesIntoItself(Before(args.before, args.patch, i), args.patch[i])
        => (ret.threw /\ ret.value = Undefined)

\* what holds: the move into itself of the last element of an array, or of
\* the only one, throws
MoveOfLastIntoItselfThrows ==
  (pc = "applied" /\ Valid(schema, args.before) /\ IsArr(args.before)
     /\ Len(args.before.v) = 1 /\ Len(args.patch) = 1
     /\ MovesIntoItself(Before(args.before, args.patch, 1), args.patch[1]))
    => (ret.threw /\ ret.error = "TypeError")

(***************************************************************************)
(* A JsonPatch of z.object({}).passthrough() on documents whose keys hold  *)
(* "~" and "/" (json-patch.apply.test.ts, A.14 and A.15).                  *)
(***************************************************************************)
\* z.object({}).passthrough()
AnySchema == ZObject(<<>>, {}, "passthrough")

\* { "/": 9, "~1": 10 } of the tests, and documents around it
EscDocs ==
  {Obj(<<>>),
   Obj(K_slash :> Num(9)),
   Obj(K_tilde1 :> Num(10)),
   Obj(K_slash :> Num(9) @@ K_tilde1 :> Num(10)),
   Obj(K_slash :> Num(10) @@ K_tilde1 :> Num(9)),
   Obj(K_abc :> Num(1)),
   Obj(K_abc :> Num(2)),
   Obj(K_slash :> Num(9) @@ K_tilde1 :> Num(10) @@ K_abc :> Num(1))}

EscOps ==
  {OpTest(<<"/", "~", "0", "1">>, Num(10)),
   OpTest(<<"/", "~", "0", "1">>, Str("10")),
   OpTest(<<"/", "~", "0", "1">>, Num(9)),
   OpTest(<<"/", "~", "1">>, Num(9)),
   OpReplace(<<"/", "~", "0", "1">>, Num(11)),
   OpAdd(<<"/", "a", "~", "1", "b", "~", "0", "c">>, Num(1)),
   OpRemove(<<"/", "a", "~", "1", "b", "~", "0", "c">>)}
EscPatches == UNION {[1..n -> EscOps] : n \in 0..MaxPatchLen}

InitEscape ==
  /\ heap = EmptyHeap
  /\ schema = AnySchema
  /\ pc = "idle"
  /\ args = NoArgs
  /\ ret = NoRet
  /\ state = NoState
  /\ held = {}
  /\ channel = <<>>
  /\ ClientInit

\* patcher.diff({ original, updated }) on two of the documents
EscapeDiff ==
  /\ pc = "idle"
  /\ \E original \in EscDocs, updated \in EscDocs :
       /\ heap' = Store(Store(heap, 1, original), 2, updated)
       /\ args' = [original |-> 1, updated |-> 2, patch |-> <<>>,
                   before |-> original]
       /\ ret' = JsonPatch_diff(schema, original, updated)
  /\ pc' = "diffed"
  /\ UNCHANGED <<schema, state, held, channel, clientVars>>

\* patcher.apply({ original, patch }) on one of the documents
EscapeApply ==
  /\ pc = "idle"
  /\ \E original \in EscDocs, patch \in EscPatches :
       /\ Outcome(JsonPatch_apply(Store(heap, 1, original), schema, 1,
                                  patch))
       /\ args' = [original |-> 1, updated |-> NoRef, patch |-> patch,
                   before |-> original]
  /\ pc' = "applied"
  /\ UNCHANGED <<schema, state, held, channel, clientVars>>

NextEscape == EscapeDiff \/ PatchApplyDiff \/ EscapeApply \/ PatchReturn

SpecEscape == InitEscape /\ [][NextEscape]_vars

\* a key as a reference token: "~" written ~0 and "/" written ~1
Encoded(key) ==
  Flatten([i \in 1..Len(key) |->
             IF key[i] = "~" THEN <<"~", "0">>
             ELSE IF key[i] = "/" THEN <<"~", "1">>
             ELSE <<key[i]>>])

\* the members of the two objects that differ
Differing(original, updated) ==
  {k \in (DOMAIN original.v) \cup (DOMAIN updated.v) :
     \/ k \notin DOMAIN original.v
     \/ k \notin DOMAIN updated.v
     \/ original.v[k] # updated.v[k]}

\* the operations of diff address exactly the members that differ, each by
\* its encoded key
EncodedPaths(ops, original, updated) ==
  {ops[i].path : i \in 1..Len(ops)}
    = {<<"/">> \o Encoded(k) : k \in Differing(original, updated)}

\* the path /~01 addresses the member "~1" of a document that holds both
\* "/" and "~1": a test compares with it, a replace writes it
TildeOneAddressed(doc, op, r) ==
  (/\ {K_slash, K_tilde1} \subseteq DOMAIN doc.v
   /\ op.path = <<"/", "~", "0", "1">>)
    => /\ op.op = "test" =>
            /\ r.threw <=> (op.value # doc.v[K_tilde1])
            /\ ~r.threw => r.value = doc
       /\ op.op = "replace" =>
            /\ ~r.threw
            /\ r.value = Obj([doc.v EXCEPT ![K_tilde1] = op.value])

\* C26: path token escaping round-trips: diff encodes a key with "~" as ~0
\* and "/" as ~1, apply decodes the token to the same key, and the token
\* ~01 decodes to the key "~1", never to "/"
C26_EscapingRoundTrips ==
  /\ (pc = "diffed" /\ ~ret.threw) =>
       EncodedPaths(ret.ops, heap[args.original], heap[args.updated])
  /\ pc = "roundtrip" => (~ret.threw /\ ret.value = heap[args.updated])
  /\ (pc = "applied" /\ Len(args.patch) = 1) =>
       TildeOneAddressed(args.before, args.patch[1], ret)

\* the key a/b~c went through diff and apply, beside the keys "/" and "~1"
C26_Witness ==
  /\ pc = "roundtrip"
  /\ heap[args.original] = Obj(K_abc :> Num(1))
  /\ args.patch = <<OpRemove(<<"/", "a", "~", "1", "b", "~", "0", "c">>),
                    OpAdd(<<"/", "~", "1">>, Num(9)),
                    OpAdd(<<"/", "~", "0", "1">>, Num(10))>>
  /\ ret.value = Obj(K_slash :> Num(9) @@ K_tilde1 :> Num(10))

\* the mutator of the call that just returned threw, or returned a value
\* that does not satisfy the schema
MutatorFailed(m, before) ==
  \/ m.kind = "throws"
  \/ ~Valid(schema, MutatorValue(m, before))

\* C27: when mutateAndDiff fails, because the mutator throws or because the
\* value it returns does not satisfy the schema, the call throws, returns
\* no operations, and the state afterwards is deep-equal to the state
\* before the call
C27_FailedMutateKeepsState ==
  (pc = "mutated" /\ MutatorFailed(args.input, args.before)) =>
    /\ ret.threw
    /\ ret.ops = <<>>
    /\ StateValue(args.on) = args.before

\* a mutator changed its argument in place into an invalid value and
\* returned it; the call threw
C27_Witness ==
  /\ pc = "mutated"
  /\ MutatorInPlace(args.input)
  /\ ~Valid(schema, MutatorValue(args.input, args.before))
  /\ ret.threw
  /\ StateValue(args.on) = args.before

\* the document is what the schema's parse returns for it
Normalized(doc) == Parse(schema, doc).ok /\ Parse(schema, doc).v = doc

\* C28: after construction and after every successful mutateAndDiff or
\* apply the document a SyncState holds is the validator's normalized form
\* of itself
C28_HoldsNormalized ==
  \A i \in Instances : state[i] # NoRef => Normalized(StateValue(i))

\* what holds: the constructor and apply commit a normalized document
CommitsNormalized ==
  (pc \in {"constructed", "applied"} /\ ~ret.threw)
    => Normalized(StateValue(args.on))

\* the call returned what the schema makes of the final document r alone
OnlyEndsChecked(r) ==
  r.err = "" =>
    /\ ret.threw <=> ~Valid(schema, r.doc)
    /\ ret.threw => ret.error = "ZodError"
    /\ ~ret.threw => ret.value = Parse(schema, r.doc).v

\* C29: apply checks the schema only on the original and on the final
\* result: when the original satisfies the schema and every operation
\* applies, the patch is accepted exactly when the final document
\* satisfies the schema, whatever the working copies in between
C29_OnlyEndsChecked ==
  pc = "applied" =>
    IF ~Valid(schema, args.before)
    THEN ret.threw /\ ret.error = "ZodError"
    ELSE OnlyEndsChecked(applyPatch(args.before, args.patch))

\* apply accepted a patch whose first operation left a working copy that
\* violates the schema
C29_Witness ==
  /\ pc = "applied"
  /\ ~ret.threw
  /\ Len(args.patch) = 2
  /\ ~Valid(schema, Before(args.before, args.patch, 2).doc)

(***************************************************************************)
(* SpecLossy: the producer and its replica over a transport that may drop  *)
(* a message or deliver two messages in swapped order.                     *)
(***************************************************************************)
\* the transport changed the messages in flight to rest; the model follows
\* one loss
Lossy(step, rest) ==
  /\ ~lost
  /\ channel' = rest
  /\ lost' = TRUE
  /\ pc' = step
  /\ args' = [on |-> "replica", before |-> StateValue("replica"),
              input |-> Head(channel)]
  /\ ret' = NoRet
  /\ UNCHANGED <<heap, schema, state, held, hookVars>>

\* the next message, one with operations, never reaches the replica
TransportDrop ==
  /\ state["replica"] # NoRef
  /\ channel # <<>>
  /\ Head(channel).operations # <<>>
  /\ Lossy("dropped", Tail(channel))

\* the next two messages, with different operations, reach the replica in
\* swapped order
TransportSwap ==
  /\ state["replica"] # NoRef
  /\ Len(channel) >= 2
  /\ channel[1].operations # <<>>
  /\ channel[2].operations # <<>>
  /\ channel[1].operations # channel[2].operations
  /\ Lossy("swapped", <<channel[2], channel[1]>> \o Tail(Tail(channel)))

\* the producer of this specification replaces its state by no counter or
\* by one, documents the schema returns unchanged
LossyMutators ==
  {Mutator("returns", d) :
     d \in {Arr(<<>>), Arr(<<Count(1)>>), Arr(<<Count(2)>>)}}

\* const operations = syncState.mutateAndDiff(...);
\* yield {operations, state: syncState.state}
LossyMutate ==
  /\ state["replica"] # NoRef
  /\ Len(channel) < MaxQueue
  /\ \E m \in LossyMutators : MutateAndDiff("producer", m, FALSE)
  /\ channel' = IF ret'.threw THEN channel
                ELSE Append(channel,
                            Message(ret'.ops, heap'[state'["producer"]]))

NextLossy ==
  \/ NewProducer
  \/ NewReplica
  \/ LossyMutate
  \/ ReplicaApply
  \/ TransportDrop
  \/ TransportSwap

\* the state is the array of counters of the router
InitLossy == Init /\ schema = StateSchema

SpecLossy == InitLossy /\ [][NextLossy]_vars

\* C21: a replica that drops one of the producer's operation sequences, or
\* applies two of them in swapped order, and keeps applying the later ones
\* is permanently desynchronized: from then on its state is never again
\* deep-equal to the producer's
C21_PermanentlyDesynchronized ==
  lost => StateValue("replica") # StateValue("producer")

\* the replica's apply of operations: r is what applyPatch makes of the
\* replica's own document
AppliedOwn(r) ==
  /\ ret'.threw <=> (r.err # "" \/ ~Valid(schema, r.doc))
  /\ ret'.threw => StateValue("replica")' = StateValue("replica")
  /\ ~ret'.threw => StateValue("replica")' = Parse(schema, r.doc).v
  /\ lost' = lost

\* C21, amended: SyncState.apply neither detects a dropped or swapped
\* sequence nor recovers from it: each apply of the replica acts on the
\* replica's own document alone; it throws, leaving the state as it was,
\* exactly when an operation does not apply to that document or the result
\* violates the schema, and otherwise commits the patched document
C21_ApplyIgnoresLoss ==
  [][(pc' = "applied" /\ args'.on = "replica") =>
       AppliedOwn(applyPatch(StateValue("replica"),
                             Head(channel).operations))]_vars

\* after a loss the replica applied every later sequence without an error
\* and its state is not the producer's
C21_Witness ==
  /\ lost
  /\ channel = <<>>
  /\ pc = "applied"
  /\ ~ret.threw
  /\ Normalized(StateValue("producer"))
  /\ StateValue("replica") # StateValue("producer")

\* after a loss the replica applied every later sequence without an error
\* and its state is the producer's again
ResynchronizedByChance ==
  /\ lost
  /\ channel = <<>>
  /\ pc = "applied"
  /\ ~ret.threw
  /\ args.input.operations # <<>>
  /\ StateValue("replica") = StateValue("producer")

(***************************************************************************)
(* SpecHook: a component that uses useSyncStateStream.  React runs the     *)
(* effect, and later its cleanup and the effect again; the query, the      *)
(* stream and the timers of every run go on at their own pace.             *)
(***************************************************************************)
\* what the component displays
Display == <<hookState, isStreaming, error>>

\* a step of run e of the effect, of its stream or of a timer it set
HookStep(step, e, value) ==
  /\ pc' = step
  /\ args' = [on |-> e, before |-> Display, input |-> value]
  /\ ret' = NoRet
  /\ UNCHANGED <<heap, schema, state, held, channel, lost>>

\* clearTimeout(id)
ClearTimeout(pending, id) == {t \in pending : t.id # id}

\* an id setTimeout may return: no pending timer has it
FreeTimerIds(pending) == TimerIds \ {t.id : t \in pending}

\* debouncedSetState(value) (lines 65-72), called by run e: the timers
\* left pending and the new updateTimeoutRef.current
Debounced(pending, ref, id, value, e) ==
  [timers |-> ClearTimeout(pending, ref)
                \cup {[id |-> id, value |-> value, by |-> e]},
   ref |-> id]

\* the cleanup's clearTimeout (lines 107-109); the faulty variant leaves
\* the timer pending
CleanupTimers_Kept(pending, ref) == pending

CleanupTimers(pending, ref) ==
  IF ref # NoTimer THEN ClearTimeout(pending, ref) ELSE pending

\* the effect runs (lines 75-77, 101): first at mount, then after the
\* cleanup of the run before
RunEffect ==
  /\ effect < MaxEffects
  /\ effect > 0 => aborted[effect]
  /\ effect' = effect + 1
  /\ isStreaming' = TRUE
  /\ error' = Null
  /\ phase' = [phase EXCEPT ![effect + 1] = "query"]
  /\ HookStep("effect", effect + 1, Undefined)
  /\ UNCHANGED <<hookState, updateTimeoutRef, timers, aborted, yielded>>

\* the cleanup of the last run (lines 103-109)
Cleanup ==
  /\ effect > 0
  /\ ~aborted[effect]
  /\ aborted' = [aborted EXCEPT ![effect] = TRUE]
  /\ timers' = CleanupTimers(timers, updateTimeoutRef)
  /\ HookStep("cleanup", effect, Undefined)
  /\ UNCHANGED <<hookState, isStreaming, error, updateTimeoutRef, effect,
                 phase, yielded>>

\* await queryFn(trpcClient) resolves (line 81)
QueryResolves(e) ==
  /\ phase[e] = "query"
  /\ phase' = [phase EXCEPT ![e] = "iterating"]
  /\ HookStep("resolved", e, Undefined)
  /\ UNCHANGED <<hookState, isStreaming, error, updateTimeoutRef, timers,
                 effect, aborted, yielded>>

\* catch and finally (lines 86-98)
Caught(step, e) ==
  /\ phase' = [phase EXCEPT ![e] = "finished"]
  /\ error' = IF aborted[e] THEN error ELSE Str("message")
  /\ isStreaming' = IF aborted[e] THEN isStreaming ELSE FALSE
  /\ HookStep(step, e, Undefined)
  /\ UNCHANGED <<hookState, updateTimeoutRef, timers, effect, aborted,
                 yielded>>

\* await queryFn(trpcClient) rejects
QueryRejects(e) == phase[e] = "query" /\ Caught("rejected", e)

\* the iterable throws
StreamThrows(e) == phase[e] = "iterating" /\ Caught("threw", e)

\* the iterable yields a value (lines 82-85): break when aborted, and the
\* finally block; debouncedSetState(value) otherwise
StreamYields(e, value) ==
  /\ phase[e] = "iterating"
  /\ yielded' = yielded \cup {value}
  /\ IF aborted[e]
     THEN /\ phase' = [phase EXCEPT ![e] = "finished"]
          /\ UNCHANGED <<updateTimeoutRef, timers>>
     ELSE /\ \E id \in FreeTimerIds(ClearTimeout(timers, updateTimeoutRef)) :
               /\ timers' = Debounced(timers, updateTimeoutRef, id, value,
                                      e).timers
               /\ updateTimeoutRef' = Debounced(timers, updateTimeoutRef, id,
                                                value, e).ref
          /\ UNCHANGED phase
  /\ HookStep("yielded", e, value)
  /\ UNCHANGED <<hookState, isStreaming, error, effect, aborted>>

\* the iterable ends: the finally block (lines 93-97)
StreamEnds(e) ==
  /\ phase[e] = "iterating"
  /\ phase' = [phase EXCEPT ![e] = "finished"]
  /\ isStreaming' = IF aborted[e] THEN isStreaming ELSE FALSE
  /\ HookStep("ended", e, Undefined)
  /\ UNCHANGED <<hookState, error, updateTimeoutRef, timers, effect,
                 aborted, yielded>>

\* a timeout fires: setState(value) (lines 69-71)
TimerFires ==
  /\ \E t \in timers :
       /\ hookState' = t.value
       /\ timers' = timers \ {t}
       /\ HookStep("timer", t.by, t.value)
  /\ UNCHANGED <<isStreaming, error, updateTimeoutRef, effect, aborted,
                 phase, yielded>>

NextHook ==
  \/ RunEffect
  \/ Cleanup
  \/ \E e \in Effects : QueryResolves(e)
  \/ \E e \in Effects : QueryRejects(e)
  \/ \E e \in Effects : StreamThrows(e)
  \/ \E e \in Effects, value \in Values : StreamYields(e, value)
  \/ \E e \in Effects : StreamEnds(e)
  \/ TimerFires

SpecHook == Init /\ [][NextHook]_vars

\* C30: once the cleanup of a run of the effect has run, the stream of
\* that run and the timers it set make no further update to state,
\* isStreaming or error, and the displayed state is at all times null or a
\* value a stream yielded
C30_NoUpdateAfterCleanup ==
  /\ [][(args'.on \in Effects /\ aborted[args'.on]) =>
          UNCHANGED <<hookState, isStreaming, error>>]_vars
  /\ [](hookState = Null \/ hookState \in yielded)

\* the stream of a run whose cleanup has run yielded a value, while the
\* next run of the effect is streaming
C30_Witness ==
  /\ pc = "yielded"
  /\ aborted[args.on]
  /\ effect > args.on
  /\ isStreaming
  /\ hookState # args.input

====
